---- MODULE Spec2Model ----
(***************************************************************************)
(* A model of tpix-cli's package acquisition and self-update engine.       *)
(*                                                                         *)
(* Part 1: version.Downloader.Download with its progress channel           *)
(*         (src/unnamed/part_000) and the drain loop of updateCmd          *)
(*         (src/unnamed/part_004).                                         *)
(* Part 2: the earlier revision of Download kept in                        *)
(*         src/version/download.go, which has no channel.                  *)
(* Part 3: fetchWithDeps, the dependency resolver of the get and pull      *)
(*         commands (src/unnamed/part_004).                                *)
(* Part 4: the Updater, both revisions kept in src/version/updater.go,     *)
(*         and the installation done by the callback of Update.            *)
(***************************************************************************)
EXTENDS Integers, Sequences, FiniteSets, TLC

VARIABLES
    size,          \* d.asset.Size, the announced size (a Go int, may be <= 0)
    hasOnFinished, \* whether the onFinished argument of Download is non-nil
    pc,            \* position of the background goroutine of Download
    total,         \* progress.total, a uint64
    finished,      \* progress.finished
    reportChan,    \* the values buffered in progress.reportChan
    closes,        \* number of close(dp.reportChan) executed
    Err,           \* progress.Err
    body,          \* bytes of resp.Body not yet read
    chunk,         \* length of the slice handed to the current Write
    n,             \* bytes io.Copy has written to targetFile
    calls,         \* number of invocations of onFinished
    extracted,     \* uncompressToDir returned nil
    exitPath,      \* which return statement the goroutine took
    cpc,           \* position of the consumer (updateCmd)
    lastRatio,     \* last value the consumer received from the channel
    seenErr,       \* progress.Err as read by the consumer after the loop
    visited,       \* fetchWithDeps: the visited map (its true keys)
    cache,         \* directories present under the cache root
    stack,         \* call stack of fetchWithDeps frames
    roots,         \* refs the command still has to resolve
    rootNoDeps,    \* the --no-deps flag of the get command
    depsAnswer,    \* what FetchDependencies answered for each ref so far
    downloads,     \* number of DownloadPackage calls per ref
    failed,        \* refs for which DownloadPackage returned an error
    queries,       \* number of FetchDependencies calls per ref
    cacheHits,     \* refs reported "Already cached"
    result,        \* outcome of the command: "running", "ok" or "error"
    called,        \* refs the command has already passed to fetchWithDeps
    count,         \* the number printed in "Done. %d package(s) resolved."
    goos,          \* runtime.GOOS
    goarch,        \* runtime.GOARCH, as a sequence of tokens
    running,       \* version.Version, the version of the running binary
    latestRelease, \* Updater.latestRelease
    releaseQueries,\* number of http.Get(latestReleaseUrl) issued
    lastCall,      \* what the last call of Check, Latest or Update returned
    matched,       \* assets of the last decoded release that fit the pattern
    staging,       \* the directory made by os.MkdirTemp in Update
    exeFile,       \* what the path of the running executable holds
    oldFile,       \* what <exe>.old holds
    ipc,           \* position inside onDownloadFinished / moveFile
    arcName,       \* name of the archive file, as a sequence of tokens
    arcEntries,    \* entries of the archive that was opened
    fsDirs,        \* the directories that exist, as cleaned paths
    fsFiles,       \* the regular files that exist, with their content
    arcNext,       \* index of the next entry to read
    xpc,           \* the extractor that runs, or "returned"
    xerr,          \* the error extractTarGz returned
    srcTree,       \* the entries of the source directory of the bundle
    manifest,      \* typst.toml as CreatePackage read it
    rules,         \* excludePatterns of CreatePackage
    outFile,       \* what the output path holds
    walkTodo,      \* the entries filepath.Walk has still to visit
    bundle,        \* the entries written to the archive
    evaluated,     \* the paths passed to shouldExclude, in order
    bpc,           \* position of CreatePackage
    berr,          \* the error CreatePackage returned
    content,       \* the lines of the source file given to ExtractFromSource
    lineNo,        \* index of the line the loop reads next
    inBlockComment,\* inBlockComment of ExtractFromSource
    deps,          \* deps of ExtractFromSource
    seen,          \* the keys of seen
    ppc,           \* position of ExtractFromSource
    settings,      \* the content of settings.json
    cacheEnv,      \* TYPST_PACKAGE_CACHE_PATH, "" when unset
    loaded,        \* what the last Load returned
    saved,         \* the argument and the error of the last Save
    req,           \* the callers of makeRequest: position, config, result
    refreshMu,     \* the caller that holds refreshMu, 0 if none
    srv            \* the server: the tokens it accepts and has issued

dlVars == <<size, hasOnFinished, pc, total, finished, reportChan, closes, Err,
            body, chunk, n, calls, extracted, exitPath>>
consVars == <<cpc, lastRatio, seenErr>>
depVars == <<visited, cache, stack, roots, rootNoDeps, depsAnswer, downloads,
             failed, queries, cacheHits, result, called, count>>
updVars == <<goos, goarch, running, latestRelease, releaseQueries, lastCall,
             matched, staging, exeFile, oldFile, ipc>>
bunVars == <<srcTree, manifest, rules, outFile, walkTodo, bundle, evaluated,
             bpc, berr>>
reqVars == <<req, refreshMu, srv>>
cfgVars == <<settings, cacheEnv, loaded, saved>>
parVars == <<content, lineNo, inBlockComment, deps, seen, ppc>>
arcVars == <<arcName, arcEntries, arcNext, fsDirs, fsFiles, xpc, xerr>>
\* the variables of parts 5 and later, which parts 1 to 4 leave alone
\* the variables of parts 8 and later
lateVars == <<cfgVars, reqVars>>
auxVars == <<arcVars, bunVars, parVars, lateVars>>
vars == <<dlVars, consVars, depVars, updVars, auxVars>>

-----------------------------------------------------------------------------
(* Bounds *)

\* largest announced asset size explored; the body may be one byte longer
MaxSize == 6
\* largest number of bytes one Read of resp.Body returns
MaxChunk == 2

MaxBody == MaxSize + 1
Sizes == -1 .. MaxSize

-----------------------------------------------------------------------------
(* Part 1: DownloadProgress and Downloader.Download, src/unnamed/part_000 *)

\* capacity of reportChan: make(chan float32, 5)
ChanCap == 5

NoErr == "nil"

\* uint64(x) of a Go int.  The value is x mod 2^64; since the model checker's
\* integers are 32 bits wide it is kept as [wrapped, v]: v when x >= 0 and
\* 2^64 + v when x < 0.
Uint64(x) == [wrapped |-> x < 0, v |-> x]

\* float32(f) / float32(t) for a uint64 t: IEEE division, never a panic.
\*   t = 0, f > 0          -> +Inf
\*   t = 0, f = 0          -> NaN
\*   t = 2^64 + v (v < 0)  -> a positive value below 1e-18, 0 when f = 0
\*   otherwise             -> the quotient f / t (exact operands below 2^24)
Ratio(f, t) ==
    IF t.wrapped THEN [kind |-> IF f = 0 THEN "zero" ELSE "tiny", num |-> f, den |-> t.v]
    ELSE IF t.v = 0 THEN [kind |-> IF f = 0 THEN "nan" ELSE "inf", num |-> f, den |-> 0]
    ELSE [kind |-> "quot", num |-> f, den |-> t.v]

NoRatio == [kind |-> "none", num |-> 0, den |-> 0]

\* the float32 value 1.0
IsOne(r) == r.kind = "quot" /\ r.num = r.den

ExitPaths == {"request", "file", "copy", "size", "extract", "success"}

\* newDownloader(asset, destDir) (lines 60-75) has returned: a Downloader,
\* or nil for an asset without DownloadURL
InitDownload ==
    /\ size \in Sizes
    /\ hasOnFinished \in BOOLEAN
    /\ pc \in {"new", "nil"}
    /\ total = Uint64(0)
    /\ finished = 0
    /\ reportChan = <<>>
    /\ closes = 0
    /\ Err = NoErr
    /\ body = 0
    /\ chunk = 0
    /\ n = 0
    /\ calls = 0
    /\ extracted = FALSE
    /\ exitPath = "none"
    /\ cpc = "idle"
    /\ lastRatio = NoRatio
    /\ seenErr = "unread"

\* newDownloadProgress(uint64(d.asset.Size))
newDownloadProgress(t) ==
    /\ total' = t
    /\ finished' = 0
    /\ reportChan' = <<>>
    /\ closes' = 0
    /\ Err' = NoErr

\* Download: creates the handle, starts the goroutine and returns the handle
\* to the caller, which starts to drain it.  On a nil Downloader the
\* argument d.asset.Size of line 88 is a nil dereference: the caller panics
\* and there is neither handle nor goroutine.
Download ==
    /\ pc \in {"new", "nil"}
    /\ IF pc = "nil"
          THEN /\ pc' = "panic"
               /\ UNCHANGED <<total, finished, reportChan, closes, Err, cpc>>
          ELSE /\ newDownloadProgress(Uint64(size))
               /\ pc' = "get"
               /\ cpc' = "range"
    /\ UNCHANGED <<size, hasOnFinished, body, chunk, n, calls, extracted,
                   exitPath, lastRatio, seenErr, depVars, auxVars, updVars>>

\* Fail without the deferred progress.Done(): the error return leaves the
\* channel open.
Fail_ReturnWithoutClose(e, path) ==
    /\ Err' = e
    /\ exitPath' = path
    /\ pc' = "done"

\* Fail that loses the error (assigned to a shadowed variable)
Fail_ForgetErr(e, path) ==
    /\ Err' = Err
    /\ exitPath' = path
    /\ pc' = "return"

\* an error return of the goroutine: progress.Err = e; return
Fail(e, path) ==
    /\ Err' = e
    /\ exitPath' = path
    /\ pc' = "return"

\* resp, err := d.get(url): an error (transport error, client timeout), or a
\* response whose body holds any number of bytes.
Get ==
    /\ pc = "get"
    /\ \/ /\ Fail("request error", "request")
          /\ UNCHANGED body
       \/ /\ \E len \in 0 .. MaxBody : body' = len
          /\ pc' = "open"
          /\ UNCHANGED <<Err, exitPath>>
    /\ UNCHANGED <<size, hasOnFinished, total, finished, reportChan, closes,
                   chunk, n, calls, extracted, consVars, depVars, auxVars, updVars>>

\* os.OpenFile of the destination file
OpenFile ==
    /\ pc = "open"
    /\ \/ Fail("open error", "file")
       \/ /\ pc' = "copy"
          /\ UNCHANGED <<Err, exitPath>>
    /\ UNCHANGED <<size, hasOnFinished, total, finished, reportChan, closes,
                   body, chunk, n, calls, extracted, consVars, depVars, auxVars,
                   updVars>>

\* io.Copy reads k > 0 bytes through the TeeReader, which hands them to
\* progress.Write: dp.finished.Add(uint64(n)).
WriteAdd ==
    /\ pc = "copy"
    /\ \E k \in 1 .. MaxChunk :
          /\ k <= body
          /\ body' = body - k
          /\ chunk' = k
          /\ finished' = finished + k
    /\ pc' = "write"
    /\ UNCHANGED <<size, hasOnFinished, total, reportChan, closes, Err, n,
                   calls, extracted, exitPath, consVars, depVars, auxVars, updVars>>

\* WriteSend on a channel that never blocks the sender
WriteSend_NoBlock ==
    /\ pc = "write"
    /\ reportChan' = Append(reportChan, Ratio(finished, total))
    /\ pc' = "filewrite"
    /\ UNCHANGED <<size, hasOnFinished, total, finished, closes, Err, body,
                   chunk, n, calls, extracted, exitPath, consVars, depVars, auxVars,
                   updVars>>

\* WriteSend that reports the ratio computed before this Write's bytes were
\* added
WriteSend_StaleRatio ==
    /\ pc = "write"
    /\ Len(reportChan) < ChanCap
    /\ reportChan' = Append(reportChan, Ratio(finished - chunk, total))
    /\ pc' = "filewrite"
    /\ UNCHANGED <<size, hasOnFinished, total, finished, closes, Err, body,
                   chunk, n, calls, extracted, exitPath, consVars, depVars, auxVars,
                   updVars>>

\* progress.Write, line 34: dp.reportChan <- progress.  Blocks while the
\* buffer is full.
WriteSend ==
    /\ pc = "write"
    /\ Len(reportChan) < ChanCap
    /\ reportChan' = Append(reportChan, Ratio(finished, total))
    /\ pc' = "filewrite"
    /\ UNCHANGED <<size, hasOnFinished, total, finished, closes, Err, body,
                   chunk, n, calls, extracted, exitPath, consVars, depVars, auxVars,
                   updVars>>

\* io.Copy writes the chunk to targetFile; a failed or short write ends the
\* copy with an error.
FileWrite ==
    /\ pc = "filewrite"
    /\ \/ /\ n' = n + chunk
          /\ pc' = "copy"
          /\ UNCHANGED <<Err, exitPath>>
       \/ /\ Fail("Download error", "copy")
          /\ UNCHANGED n
    /\ chunk' = 0
    /\ UNCHANGED <<size, hasOnFinished, total, finished, reportChan, closes,
                   body, calls, extracted, consVars, depVars, auxVars, updVars>>

\* a Read of resp.Body fails (connection lost, client timeout)
CopyError ==
    /\ pc = "copy"
    /\ Fail("Download error", "copy")
    /\ UNCHANGED <<size, hasOnFinished, total, finished, reportChan, closes,
                   body, chunk, n, calls, extracted, consVars, depVars, auxVars,
                   updVars>>

\* resp.Body is at EOF: io.Copy returns (n, nil);  n != int64(d.asset.Size)
CopyEOF ==
    /\ pc = "copy"
    /\ body = 0
    /\ IF n # size
          THEN Fail("Download error", "size")
          ELSE /\ pc' = "extract"
               /\ UNCHANGED <<Err, exitPath>>
    /\ UNCHANGED <<size, hasOnFinished, total, finished, reportChan, closes,
                   body, chunk, n, calls, extracted, consVars, depVars, auxVars,
                   updVars>>

\* err = d.uncompressToDir(targetFile, d.destDir)
Uncompress ==
    /\ pc = "extract"
    /\ \/ /\ Fail("extract error", "extract")
          /\ UNCHANGED extracted
       \/ /\ extracted' = TRUE
          /\ pc' = "callback"
          /\ UNCHANGED <<Err, exitPath>>
    /\ UNCHANGED <<size, hasOnFinished, total, finished, reportChan, closes,
                   body, chunk, n, calls, consVars, depVars, auxVars, updVars>>

\* if onFinished != nil { onFinished() }
OnFinished ==
    /\ pc = "callback"
    /\ calls' = IF hasOnFinished THEN calls + 1 ELSE calls
    /\ exitPath' = "success"
    /\ pc' = "return"
    /\ UNCHANGED <<size, hasOnFinished, total, finished, reportChan, closes,
                   Err, body, chunk, n, extracted, consVars, depVars, auxVars, updVars>>

\* Done that closes the channel only after a download without error
Done_CloseOnSuccessOnly ==
    /\ pc = "return"
    /\ closes' = IF Err = NoErr THEN closes + 1 ELSE closes
    /\ pc' = "done"
    /\ UNCHANGED <<size, hasOnFinished, total, finished, reportChan, Err,
                   body, chunk, n, calls, extracted, exitPath, consVars,
                   depVars, auxVars, updVars>>

\* the deferred calls: targetFile.Close(), then progress.Done()
Done ==
    /\ pc = "return"
    /\ closes' = closes + 1
    /\ pc' = "done"
    /\ UNCHANGED <<size, hasOnFinished, total, finished, reportChan, Err,
                   body, chunk, n, calls, extracted, exitPath, consVars,
                   depVars, auxVars, updVars>>

\* updateCmd: one iteration of  for ratio := range progress.Progress()
Receive ==
    /\ cpc = "range"
    /\ reportChan # <<>>
    /\ lastRatio' = Head(reportChan)
    /\ reportChan' = Tail(reportChan)
    /\ UNCHANGED <<size, hasOnFinished, pc, total, finished, closes, Err,
                   body, chunk, n, calls, extracted, exitPath, cpc, seenErr,
                   depVars, auxVars, updVars>>

\* updateCmd: the range loop ends on the closed and drained channel, then
\* progress.Err is read (lines 603-607).
LoopExit ==
    /\ cpc = "range"
    /\ reportChan = <<>>
    /\ closes > 0
    /\ seenErr' = Err
    /\ cpc' = "exited"
    /\ UNCHANGED <<dlVars, lastRatio, depVars, auxVars, updVars>>

-----------------------------------------------------------------------------
(* Part 2: the revision of Downloader.Download in src/version/download.go. *)
(* Its handle has no channel: Write only counts, and the caller polls      *)
(* Progress().  It shares size, hasOnFinished, pc, total, finished, Err,   *)
(* body, chunk, n, calls, extracted and exitPath with part 1.              *)

\* Download (lines 70-73, 118): progress := &DownloadProgress{}, the
\* goroutine is started and the handle returned, its total still 0
LegacyDownload ==
    /\ pc \in {"new", "nil"}
    /\ total' = Uint64(0)
    /\ finished' = 0
    /\ Err' = NoErr
    /\ pc' = IF pc = "nil" THEN "lstartnil" ELSE "lstart"
    /\ UNCHANGED <<size, hasOnFinished, reportChan, closes, body, chunk, n,
                   calls, extracted, exitPath, consVars, depVars, auxVars, updVars>>

\* the first statement of the goroutine (line 74):
\* progress.total = uint64(d.asset.Size), a write the caller's reads of
\* Progress() are not synchronised with; on a nil Downloader it panics
LegacyStart ==
    /\ pc \in {"lstart", "lstartnil"}
    /\ IF pc = "lstartnil"
          THEN /\ pc' = "panic"
               /\ UNCHANGED total
          ELSE /\ total' = Uint64(size)
               /\ pc' = "lget"
    /\ UNCHANGED <<size, hasOnFinished, finished, reportChan, closes, Err,
                   body, chunk, n, calls, extracted, exitPath, consVars,
                   depVars, auxVars, updVars>>

\* an error return of the goroutine; nothing is deferred but file cleanup
LegacyFail(e, path) ==
    /\ Err' = e
    /\ exitPath' = path
    /\ pc' = "done"

\* resp, err := d.get(url)
LegacyGet ==
    /\ pc = "lget"
    /\ \/ /\ LegacyFail("request error", "request")
          /\ UNCHANGED body
       \/ /\ \E len \in 0 .. MaxBody : body' = len
          /\ pc' = "ltemp"
          /\ UNCHANGED <<Err, exitPath>>
    /\ UNCHANGED <<size, hasOnFinished, total, finished, reportChan, closes,
                   chunk, n, calls, extracted, consVars, depVars, auxVars, updVars>>

\* os.MkdirTemp, then os.OpenFile in the temporary directory
LegacyOpenFile ==
    /\ pc = "ltemp"
    /\ \/ LegacyFail("open error", "file")
       \/ /\ pc' = "lcopy"
          /\ UNCHANGED <<Err, exitPath>>
    /\ UNCHANGED <<size, hasOnFinished, total, finished, reportChan, closes,
                   body, chunk, n, calls, extracted, consVars, depVars, auxVars,
                   updVars>>

\* one round of io.Copy: Write adds len(p) to finished, then the chunk is
\* written to targetFile
LegacyWrite ==
    /\ pc = "lcopy"
    /\ \E k \in 1 .. MaxChunk :
          /\ k <= body
          /\ body' = body - k
          /\ finished' = finished + k
          /\ n' = n + k
    /\ UNCHANGED <<size, hasOnFinished, pc, total, reportChan, closes, Err,
                   chunk, calls, extracted, exitPath, consVars, depVars, auxVars,
                   updVars>>

\* lines 100-108: the end of io.Copy.  On an error or a size mismatch Err is
\* set and onFinished is called before the return; otherwise onFinished is
\* called before the extraction.  The copy ends at the end of the body, on
\* an error of Read, or on an error of targetFile.Write, which comes after
\* Write of the handle has counted the chunk: of its k bytes the file has
\* taken fewer.
LegacyCopyEnd ==
    /\ pc = "lcopy"
    /\ \/ /\ \E copyErr \in BOOLEAN :
                /\ ~copyErr => body = 0
                /\ IF copyErr \/ n # size
                      THEN LegacyFail("Download error",
                                      IF copyErr THEN "copy" ELSE "size")
                      ELSE /\ pc' = "lextract"
                           /\ UNCHANGED <<Err, exitPath>>
          /\ UNCHANGED <<finished, body, n>>
       \/ /\ \E k \in 1 .. MaxChunk, w \in 0 .. MaxChunk - 1 :
                /\ k <= body
                /\ w < k
                /\ body' = body - k
                /\ finished' = finished + k
                /\ n' = n + w
          /\ LegacyFail("Download error", "copy")
    /\ calls' = IF hasOnFinished THEN calls + 1 ELSE calls
    /\ UNCHANGED <<size, hasOnFinished, total, reportChan, closes, chunk,
                   extracted, consVars, depVars, auxVars, updVars>>

\* err = d.uncompressToDir(targetFile, d.destDir)
LegacyUncompress ==
    /\ pc = "lextract"
    /\ \/ /\ LegacyFail("extract error", "extract")
          /\ UNCHANGED extracted
       \/ /\ extracted' = TRUE
          /\ exitPath' = "success"
          /\ pc' = "done"
          /\ UNCHANGED Err
    /\ UNCHANGED <<size, hasOnFinished, total, finished, reportChan, closes,
                   body, chunk, n, calls, consVars, depVars, auxVars, updVars>>

NextLegacy ==
    \/ LegacyDownload
    \/ LegacyStart
    \/ LegacyGet
    \/ LegacyOpenFile
    \/ LegacyWrite
    \/ LegacyCopyEnd
    \/ LegacyUncompress

-----------------------------------------------------------------------------
(* Part 3: fetchWithDeps, src/unnamed/part_004 lines 100-144, and its      *)
(* callers getPkgCmd and pullCmd.                                          *)

\* longest dependency list the server answers
MaxDeps == 2
\* most imports the pull command discovers
MaxRoots == 2

Ref(ns, nm, ver) == [namespace |-> ns, name |-> nm, version |-> ver]

Refs == {Ref("preview", "a", "1"), Ref("preview", "a", "2"), Ref("local", "b", "1")}

\* a key without the separators
Key_NoSeparators(r) == "@" \o r.namespace \o r.name \o r.version

\* key := fmt.Sprintf("@%s/%s:%s", namespace, name, version)
Key(r) == "@" \o r.namespace \o "/" \o r.name \o ":" \o r.version

\* sequences over S of length at most k
SeqUpTo(S, k) == UNION {[1 .. len -> S] : len \in 0 .. k}

\* the elements of a sequence
Range(sq) == {sq[i] : i \in DOMAIN sq}

NoDup(sq) == \A i, j \in DOMAIN sq : sq[i] = sq[j] => i = j

\* the dependency lists a query may answer: each dependency named once
DepLists == {sq \in SeqUpTo(Refs, MaxDeps) : NoDup(sq)}

\* what a FetchDependencies call returns: an error or a dependency list
Answers == {[status |-> "error", deps |-> <<>>]} \cup
           {[status |-> "ok", deps |-> d] : d \in DepLists}
Unasked == [status |-> "unasked", deps |-> <<>>]

Frame(r, nd) == [ref |-> r, noDeps |-> nd, at |-> "enter", todo |-> <<>>]

Top == stack[Len(stack)]
Pop == SubSeq(stack, 1, Len(stack) - 1)
SetTop(f) == [stack EXCEPT ![Len(stack)] = f]

\* what the cache may hold when the command starts: nothing, one version
\* of a package, the other packages, or every package
Caches ==
    {{}, {Ref("preview", "a", "1")},
     {Ref("preview", "a", "2"), Ref("local", "b", "1")}, Refs}

\* getPkgCmd resolves one root with the --no-deps flag; pullCmd resolves the
\* deduplicated, non-empty list of discovered imports with noDeps = false.
InitDeps ==
    /\ visited = {}
    /\ cache \in Caches
    /\ stack = <<>>
    /\ \/ /\ roots \in {sq \in SeqUpTo(Refs, MaxRoots) : sq # <<>> /\ NoDup(sq)}
          /\ rootNoDeps = FALSE
       \/ /\ roots \in {<<r>> : r \in Refs}
          /\ rootNoDeps = TRUE
    /\ depsAnswer = [r \in Refs |-> Unasked]
    /\ downloads = [r \in Refs |-> 0]
    /\ failed = {}
    /\ queries = [r \in Refs |-> 0]
    /\ cacheHits = {}
    /\ result = "running"
    /\ called = <<>>
    /\ count = 0

\* the command calls fetchWithDeps for its next root (part_004 lines 183,
\* 252-253)
CallRoot ==
    /\ result = "running"
    /\ stack = <<>>
    /\ roots # <<>>
    /\ stack' = <<Frame(Head(roots), rootNoDeps)>>
    /\ roots' = Tail(roots)
    /\ called' = Append(called, Head(roots))
    /\ UNCHANGED <<visited, cache, rootNoDeps, depsAnswer, downloads, failed, queries,
                   cacheHits, result, dlVars, consVars, count, updVars, auxVars>>

\* Report that counts the refs downloaded instead of the refs visited
Report_CountDownloads ==
    /\ result = "running"
    /\ stack = <<>>
    /\ roots = <<>>
    /\ result' = "ok"
    /\ count' = Cardinality({r \in Refs : downloads[r] > 0})
    /\ UNCHANGED <<visited, cache, stack, roots, rootNoDeps, depsAnswer,
                   downloads, failed, queries, cacheHits, dlVars, consVars, called,
                   updVars, auxVars>>

\* every root is resolved: "Done. %d package(s) resolved.", len(visited)
Report ==
    /\ result = "running"
    /\ stack = <<>>
    /\ roots = <<>>
    /\ result' = "ok"
    /\ count' = Cardinality(visited)
    /\ UNCHANGED <<visited, cache, stack, roots, rootNoDeps, depsAnswer,
                   downloads, failed, queries, cacheHits, dlVars, consVars, called,
                   updVars, auxVars>>

\* isPackageCached: the directory cacheDir/namespace/name/version exists
isPackageCached(r) == r \in cache

\* Enter that never records the key in visited
Enter_NoMark ==
    /\ stack # <<>>
    /\ Top.at = "enter"
    /\ IF Key(Top.ref) \in visited
          THEN stack' = Pop
          ELSE stack' = SetTop([Top EXCEPT !.at = "fetch"])
    /\ UNCHANGED <<visited, cache, roots, rootNoDeps, depsAnswer, downloads, failed,
                   queries, cacheHits, result, dlVars, consVars, called, count,
                   updVars, auxVars>>

\* lines 110-114: if visited[key] { return nil }; visited[key] = true
Enter ==
    /\ stack # <<>>
    /\ Top.at = "enter"
    /\ IF Key(Top.ref) \in visited
          THEN /\ stack' = Pop
               /\ UNCHANGED visited
          ELSE /\ visited' = visited \cup {Key(Top.ref)}
               /\ stack' = SetTop([Top EXCEPT !.at = "fetch"])
    /\ UNCHANGED <<cache, roots, rootNoDeps, depsAnswer, downloads, failed, queries,
                   cacheHits, result, dlVars, consVars, called, count,
                   updVars, auxVars>>

\* api.DownloadPackage: the transfer fails, or the archive is extracted into
\* the cache directory of the ref, or the extraction fails after the
\* directory was made (src/http.go line 153); failed holds the refs for
\* which it returned an error.
DownloadPackage(r, outcome) ==
    /\ downloads' = [downloads EXCEPT ![r] = @ + 1]
    /\ cache' = IF outcome = "transfer error" THEN cache ELSE cache \cup {r}
    /\ failed' = IF outcome = "ok" THEN failed ELSE failed \cup {r}

\* Fetch that swallows a failed download and returns nil to its caller
Fetch_SwallowFailure ==
    /\ stack # <<>>
    /\ Top.at = "fetch"
    /\ IF isPackageCached(Top.ref)
          THEN /\ cacheHits' = cacheHits \cup {Top.ref}
               /\ stack' = SetTop([Top EXCEPT !.at = "deps"])
               /\ UNCHANGED <<cache, downloads, failed, result>>
          ELSE \E outcome \in {"ok", "transfer error", "extract error"} :
                  /\ downloads' = [downloads EXCEPT ![Top.ref] = @ + 1]
                  /\ cache' = IF outcome = "transfer error"
                                 THEN cache ELSE cache \cup {Top.ref}
                  /\ failed' = IF outcome = "ok"
                                  THEN failed ELSE failed \cup {Top.ref}
                  /\ IF outcome = "ok"
                        THEN stack' = SetTop([Top EXCEPT !.at = "deps"])
                        ELSE stack' = Pop
                  /\ UNCHANGED <<cacheHits, result>>
    /\ UNCHANGED <<visited, roots, rootNoDeps, depsAnswer, queries, dlVars,
                   consVars, called, count, updVars, auxVars>>

\* Fetch that returns nil as soon as the ref is found in the cache
Fetch_ReturnWhenCached ==
    /\ stack # <<>>
    /\ Top.at = "fetch"
    /\ IF isPackageCached(Top.ref)
          THEN /\ cacheHits' = cacheHits \cup {Top.ref}
               /\ stack' = Pop
               /\ UNCHANGED <<cache, downloads, failed, result>>
          ELSE \E outcome \in {"ok", "transfer error", "extract error"} :
                  /\ downloads' = [downloads EXCEPT ![Top.ref] = @ + 1]
                  /\ cache' = IF outcome = "transfer error"
                                 THEN cache ELSE cache \cup {Top.ref}
                  /\ failed' = IF outcome = "ok"
                                  THEN failed ELSE failed \cup {Top.ref}
                  /\ IF outcome = "ok"
                        THEN /\ stack' = SetTop([Top EXCEPT !.at = "deps"])
                             /\ UNCHANGED result
                        ELSE /\ stack' = <<>>
                             /\ result' = "error"
                  /\ UNCHANGED cacheHits
    /\ UNCHANGED <<visited, roots, rootNoDeps, depsAnswer, queries, dlVars,
                   consVars, called, count, updVars, auxVars>>

\* lines 116-124: a cached ref is not downloaded; a failed download is
\* returned, and every caller up to the command returns it in turn
\* (lines 138-140, 183-185, 253-255).
Fetch ==
    /\ stack # <<>>
    /\ Top.at = "fetch"
    /\ IF isPackageCached(Top.ref)
          THEN /\ cacheHits' = cacheHits \cup {Top.ref}
               /\ stack' = SetTop([Top EXCEPT !.at = "deps"])
               /\ UNCHANGED <<cache, downloads, failed, result>>
          ELSE \E outcome \in {"ok", "transfer error", "extract error"} :
                  /\ DownloadPackage(Top.ref, outcome)
                  /\ IF outcome = "ok"
                        THEN /\ stack' = SetTop([Top EXCEPT !.at = "deps"])
                             /\ UNCHANGED result
                        ELSE /\ stack' = <<>>
                             /\ result' = "error"
                  /\ UNCHANGED cacheHits
    /\ UNCHANGED <<visited, roots, rootNoDeps, depsAnswer, queries, dlVars,
                   consVars, called, count, updVars, auxVars>>

\* api.FetchDependencies: an error, or the list of direct dependencies
FetchDependencies(r, answer) ==
    /\ queries' = [queries EXCEPT ![r] = @ + 1]
    /\ depsAnswer' = [depsAnswer EXCEPT ![r] = answer]

\* Deps that returns the error of a failed query to every caller
Deps_ErrorIsFatal ==
    /\ stack # <<>>
    /\ Top.at = "deps"
    /\ IF Top.noDeps
          THEN /\ stack' = Pop
               /\ UNCHANGED <<queries, depsAnswer, result>>
          ELSE \E answer \in Answers :
                  /\ queries' = [queries EXCEPT ![Top.ref] = @ + 1]
                  /\ depsAnswer' = [depsAnswer EXCEPT ![Top.ref] = answer]
                  /\ IF answer.status = "error"
                        THEN /\ stack' = <<>>
                             /\ result' = "error"
                        ELSE /\ stack' = SetTop([Top EXCEPT
                                                   !.at = "loop",
                                                   !.todo = answer.deps])
                             /\ UNCHANGED result
    /\ UNCHANGED <<visited, cache, roots, rootNoDeps, downloads, failed, cacheHits,
                   dlVars, consVars, called, count, updVars, auxVars>>

\* lines 126-135: if noDeps { return nil }; a failed query returns nil
Deps ==
    /\ stack # <<>>
    /\ Top.at = "deps"
    /\ IF Top.noDeps
          THEN /\ stack' = Pop
               /\ UNCHANGED <<queries, depsAnswer>>
          ELSE \E answer \in Answers :
                  /\ FetchDependencies(Top.ref, answer)
                  /\ IF answer.status = "error"
                        THEN stack' = Pop
                        ELSE stack' = SetTop([Top EXCEPT !.at = "loop",
                                                         !.todo = answer.deps])
    /\ UNCHANGED <<visited, cache, roots, rootNoDeps, downloads, failed, cacheHits,
                   result, dlVars, consVars, called, count, updVars, auxVars>>

\* Loop that hands its own noDeps = true down to the recursive call
Loop_PassNoDeps ==
    /\ stack # <<>>
    /\ Top.at = "loop"
    /\ IF Top.todo = <<>>
          THEN stack' = Pop
          ELSE stack' = Append(SetTop([Top EXCEPT !.todo = Tail(@)]),
                               Frame(Head(Top.todo), TRUE))
    /\ UNCHANGED <<visited, cache, roots, rootNoDeps, depsAnswer, downloads, failed,
                   queries, cacheHits, result, dlVars, consVars, called, count,
                   updVars, auxVars>>

\* lines 137-143: the recursive call for the next dependency, with
\* noDeps = false; return nil after the last one
Loop ==
    /\ stack # <<>>
    /\ Top.at = "loop"
    /\ IF Top.todo = <<>>
          THEN stack' = Pop
          ELSE stack' = Append(SetTop([Top EXCEPT !.todo = Tail(@)]),
                               Frame(Head(Top.todo), FALSE))
    /\ UNCHANGED <<visited, cache, roots, rootNoDeps, depsAnswer, downloads, failed,
                   queries, cacheHits, result, dlVars, consVars, called, count,
                   updVars, auxVars>>

NextDeps ==
    \/ CallRoot
    \/ Report
    \/ Enter
    \/ Fetch
    \/ Deps
    \/ Loop

-----------------------------------------------------------------------------
(* Part 4: the Updater of src/version/updater.go.  The file holds two      *)
(* revisions: lines 1-224 stage the download in a temporary directory and  *)
(* install from the completion callback; lines 226-392 download next to    *)
(* the executable.  The actions named Legacy... are the second one.        *)

\* largest number in a component of a version string
MaxVer == 1
\* largest number of assets in a release
MaxAssets == 2
\* largest number of release queries one Updater is followed through
MaxQueries == 2

\* A version string: the empty string, a string that is no semantic version
\* with or without a leading "v", or 1 to 3 dotted numbers, with a leading
\* "v" when v is TRUE.
EmptyVer == [kind |-> "empty", v |-> FALSE, nums |-> <<>>]
BadVer == [kind |-> "bad", v |-> FALSE, nums |-> <<>>]
NumVers == {[kind |-> "num", v |-> b, nums |-> s] :
               b \in BOOLEAN,
               s \in UNION {[1 .. k -> 0 .. MaxVer] : k \in 1 .. 3}}
Versions == {EmptyVer, BadVer} \cup NumVers

\* semver.IsValid, of a string that starts with "v"
IsValid(w) == w.kind = "num" /\ w.v /\ Len(w.nums) \in 1 .. 3

\* normVersion: "" is an error; "v" is prepended when missing; the result
\* must be a valid semantic version
normVersion(ver) ==
    IF ver = EmptyVer
       THEN [err |-> "version cannot be empty", ver |-> EmptyVer]
       ELSE LET w == IF ~ver.v THEN [ver EXCEPT !.v = TRUE] ELSE ver
            IN  IF ~IsValid(w)
                   THEN [err |-> "invalid semantic version", ver |-> EmptyVer]
                   ELSE [err |-> NoErr, ver |-> w]

\* the i-th number of a parsed version; "v1" and "v1.0" stand for "v1.0.0"
Component(w, i) == IF i <= Len(w.nums) THEN w.nums[i] ELSE 0

\* semver.Compare of two valid versions: major, then minor, then patch
Compare(a, b) ==
    IF Component(a, 1) # Component(b, 1)
       THEN IF Component(a, 1) < Component(b, 1) THEN -1 ELSE 1
    ELSE IF Component(a, 2) # Component(b, 2)
       THEN IF Component(a, 2) < Component(b, 2) THEN -1 ELSE 1
    ELSE IF Component(a, 3) # Component(b, 3)
       THEN IF Component(a, 3) < Component(b, 3) THEN -1 ELSE 1
    ELSE 0

\* compareVersion, lines 197-208
compareVersion(v1, v2) ==
    LET n1 == normVersion(v1)
        n2 == normVersion(v2)
    IN  IF n1.err # NoErr THEN [newer |-> FALSE, err |-> n1.err]
        ELSE IF n2.err # NoErr THEN [newer |-> FALSE, err |-> n2.err]
        ELSE [newer |-> Compare(n1.ver, n2.ver) > 0, err |-> NoErr]

\* compareVersion, lines 365-376
LegacyCompareVersion(v1, v2) ==
    LET n1 == normVersion(v1)
        n2 == normVersion(v2)
    IN  IF n1.err # NoErr THEN [newer |-> FALSE, err |-> n1.err]
        ELSE IF n2.err # NoErr THEN [newer |-> FALSE, err |-> n2.err]
        ELSE [newer |-> Compare(n1.ver, n2.ver) <= 0, err |-> NoErr]

\* Strings that the pattern of getRelease reads are sequences of tokens.
\* A word token is made of characters of the class \w only.
WordTokens == {"linux", "windows", "arm", "64", "musl", "zip", "sha256"}
Archs == {<<"arm">>, <<"arm", "64">>}

\* the name "tpix-cli-<os>-<arch><suffix>.<ext>"
NameOf(os, arch, suffix, ext) ==
    <<"tpix-cli-", os, "-">> \o arch \o suffix \o <<".", ext>>

AssetNames ==
    {NameOf("linux", <<"arm">>, <<>>, "tar.gz"),
     NameOf("linux", <<"arm", "64">>, <<>>, "tar.gz"),
     NameOf("linux", <<"arm">>, <<"-", "musl">>, "tar.gz"),
     NameOf("windows", <<"arm">>, <<>>, "zip"),
     NameOf("linux", <<"arm">>, <<>>, "tar.gz") \o <<".", "sha256">>}

\* Asset{} and the assets a release may list
ZeroAsset == [Name |-> <<>>, Size |-> 0, DownloadURL |-> ""]
ServerAssets ==
    {[Name |-> nm, Size |-> MaxSize, DownloadURL |-> "u"] :
        nm \in AssetNames}

\* re.Match for ^tpix-cli-GOOS-GOARCH-?\w*?\.(tar\.gz|zip)$
Match(name) ==
    LET lit == <<"tpix-cli-", goos, "-">> \o goarch
    IN  /\ Len(name) >= Len(lit)
        /\ SubSeq(name, 1, Len(lit)) = lit
        /\ LET rest == SubSeq(name, Len(lit) + 1, Len(name))
               r1 == IF rest # <<>> /\ Head(rest) = "-"
                        THEN Tail(rest) ELSE rest
           IN  /\ Len(r1) >= 2
               /\ r1[Len(r1) - 1] = "."
               /\ r1[Len(r1)] \in {"tar.gz", "zip"}
               /\ \A i \in 1 .. Len(r1) - 2 : r1[i] \in WordTokens

RECURSIVE FirstMatch(_)
\* lines 121-127: the loop keeps the first asset that matches and breaks
FirstMatch(assets) ==
    IF assets = <<>> THEN ZeroAsset
    ELSE IF Match(Head(assets).Name) THEN Head(assets)
    ELSE FirstMatch(Tail(assets))

\* the number of assets of a release whose name fits the pattern
Matching(assets) ==
    Cardinality({i \in DOMAIN assets : Match(assets[i].Name)})

\* u.latestRelease == nil, and the releases getRelease can build
NoRelease == [nil |-> TRUE, asset |-> ZeroAsset, Version |-> EmptyVer]
Release(a, ver) == [nil |-> FALSE, asset |-> a, Version |-> ver]

\* version.Version as built without -ldflags (line 404), and a tag above it
DefaultRunning == [kind |-> "num", v |-> TRUE, nums |-> <<0, 0, 0>>]
DefaultTag == [kind |-> "num", v |-> TRUE, nums |-> <<1, 0, 0>>]

\* the asset list of a release that carries one archive, for this platform
PlatformAssets ==
    <<[Name |-> NameOf(goos, goarch, <<>>, "tar.gz"), Size |-> MaxSize,
       DownloadURL |-> "u"]>>

\* the same without browser_download_url
NoUrlAssets ==
    <<[Name |-> NameOf(goos, goarch, <<>>, "tar.gz"), Size |-> MaxSize,
       DownloadURL |-> ""]>>

\* what http.Get and the decoder deliver: an error, or a release with its
\* tag name and its list of assets.  The releases explored carry any tag
\* with the archive of the platform, or any list of assets with one tag.
Responses ==
    {[status |-> st, TagName |-> EmptyVer, Assets |-> <<>>] :
        st \in {"network error", "decode error"}} \cup
    {[status |-> "ok", TagName |-> t, Assets |-> PlatformAssets] :
        t \in Versions} \cup
    {[status |-> "ok", TagName |-> DefaultTag, Assets |-> NoUrlAssets]} \cup
    {[status |-> "ok", TagName |-> DefaultTag, Assets |-> as] :
        as \in {sq \in SeqUpTo(ServerAssets, MaxAssets) : NoDup(sq)}}

\* getRelease, lines 102-139
getRelease(resp) ==
    IF resp.status # "ok"
       THEN [err |-> resp.status, release |-> NoRelease]
    ELSE IF FirstMatch(resp.Assets) = ZeroAsset
       THEN [err |-> "No matched release", release |-> NoRelease]
    ELSE [err |-> NoErr,
          release |-> Release(FirstMatch(resp.Assets), resp.TagName)]

Precondition == "Check if there is a new version first!"

\* no call of the Updater has returned yet
NoCall == [op |-> "none", err |-> NoErr, newer |-> FALSE,
           release |-> NoRelease]
Returned(o, e, nw, rel) == [op |-> o, err |-> e, newer |-> nw,
                            release |-> rel]

\* lines 51-58 and 65-72: the release is queried only while latestRelease
\* is nil, and memoized when the query succeeded
Memoize(resp, g) ==
    /\ releaseQueries' = releaseQueries + 1
    /\ latestRelease' = IF g.err = NoErr THEN g.release ELSE latestRelease
    /\ matched' = IF resp.status = "ok" THEN Matching(resp.Assets)
                                        ELSE matched

\* the variables of the installation, which the calls below leave alone
fileVars == <<exeFile, oldFile, ipc>>

\* Updater.Check, lines 50-62
Check ==
    /\ pc # "panic"
    /\ IF latestRelease = NoRelease
          THEN /\ releaseQueries < MaxQueries
               /\ \E resp \in Responses :
                     LET g == getRelease(resp)
                         c == compareVersion(g.release.Version, running)
                     IN  /\ Memoize(resp, g)
                         /\ IF g.err # NoErr
                               THEN lastCall' = Returned("Check", g.err,
                                                         FALSE, NoRelease)
                               ELSE lastCall' = Returned("Check", c.err,
                                                         c.newer, NoRelease)
          ELSE /\ UNCHANGED <<releaseQueries, latestRelease, matched>>
               /\ LET c == compareVersion(latestRelease.Version, running)
                  IN  lastCall' = Returned("Check", c.err, c.newer,
                                           NoRelease)
    /\ UNCHANGED <<goos, goarch, running, staging, fileVars, dlVars, consVars,
                   depVars, auxVars>>

\* Updater.Check, lines 275-287, with the compareVersion of lines 365-376
LegacyCheck ==
    /\ pc # "panic"
    /\ IF latestRelease = NoRelease
          THEN /\ releaseQueries < MaxQueries
               /\ \E resp \in Responses :
                     LET g == getRelease(resp)
                         c == LegacyCompareVersion(g.release.Version, running)
                     IN  /\ Memoize(resp, g)
                         /\ IF g.err # NoErr
                               THEN lastCall' = Returned("Check", g.err,
                                                         FALSE, NoRelease)
                               ELSE lastCall' = Returned("Check", c.err,
                                                         c.newer, NoRelease)
          ELSE /\ UNCHANGED <<releaseQueries, latestRelease, matched>>
               /\ LET c == LegacyCompareVersion(latestRelease.Version, running)
                  IN  lastCall' = Returned("Check", c.err, c.newer,
                                           NoRelease)
    /\ UNCHANGED <<goos, goarch, running, staging, fileVars, dlVars, consVars,
                   depVars, auxVars>>

\* Latest that queries the release on every call
Latest_AlwaysQuery ==
    /\ pc # "panic"
    /\ releaseQueries < MaxQueries
    /\ \E resp \in Responses :
          LET g == getRelease(resp)
          IN  /\ releaseQueries' = releaseQueries + 1
              /\ matched' = IF resp.status = "ok"
                                THEN Matching(resp.Assets) ELSE matched
              /\ IF g.err # NoErr
                    THEN /\ UNCHANGED latestRelease
                         /\ lastCall' = Returned("Latest", g.err, FALSE,
                                                 NoRelease)
                    ELSE /\ latestRelease' = g.release
                         /\ lastCall' = Returned("Latest", NoErr, FALSE,
                                                 g.release)
    /\ UNCHANGED <<goos, goarch, running, staging, fileVars, dlVars, consVars,
                   depVars, auxVars>>

\* Updater.Latest, lines 64-75 (the same at lines 289-300)
Latest ==
    /\ pc # "panic"
    /\ IF latestRelease = NoRelease
          THEN /\ releaseQueries < MaxQueries
               /\ \E resp \in Responses :
                     LET g == getRelease(resp)
                     IN  /\ Memoize(resp, g)
                         /\ lastCall' = Returned("Latest", g.err, FALSE,
                                                 g.release)
          ELSE /\ UNCHANGED <<releaseQueries, latestRelease, matched>>
               /\ lastCall' = Returned("Latest", NoErr, FALSE, latestRelease)
    /\ UNCHANGED <<goos, goarch, running, staging, fileVars, dlVars, consVars,
                   depVars, auxVars>>

\* Updater.Update, lines 79-100: the nil check, os.MkdirTemp, then
\* newDownloader and dl.Download(callback), which makes the handle and
\* starts the goroutine; the caller then ranges over the channel of the
\* handle.  For an asset without DownloadURL newDownloader returns nil and
\* dl.Download panics, after the staging directory was made.
Update ==
    /\ pc = "off"
    /\ IF latestRelease = NoRelease
          THEN /\ lastCall' = Returned("Update", Precondition, FALSE,
                                       NoRelease)
               /\ UNCHANGED <<staging, dlVars, consVars>>
          ELSE \E made \in BOOLEAN :
                  IF ~made
                     THEN /\ lastCall' = Returned("Update", "MkdirTemp error",
                                                  FALSE, NoRelease)
                          /\ UNCHANGED <<staging, dlVars, consVars>>
                  ELSE IF latestRelease.asset.DownloadURL = ""
                     THEN /\ lastCall' = Returned("Update", "panic", FALSE,
                                                  NoRelease)
                          /\ staging' = "exists"
                          /\ pc' = "panic"
                          /\ UNCHANGED <<size, hasOnFinished, total, finished,
                                         reportChan, closes, Err, body, chunk,
                                         n, calls, extracted, exitPath,
                                         consVars>>
                     ELSE /\ lastCall' = Returned("Update", NoErr, FALSE,
                                                  NoRelease)
                          /\ staging' = "exists"
                          /\ size' = latestRelease.asset.Size
                          /\ hasOnFinished' = TRUE
                          /\ newDownloadProgress(
                                Uint64(latestRelease.asset.Size))
                          /\ pc' = "get"
                          /\ cpc' = "range"
                          /\ UNCHANGED <<body, chunk, n, calls, extracted,
                                         exitPath, lastRatio, seenErr>>
    /\ UNCHANGED <<goos, goarch, running, latestRelease, releaseQueries,
                   matched, fileVars, depVars, auxVars>>

\* Updater.Update, lines 304-321: os.Executable comes before the nil check;
\* the download of src/version/download.go goes to the directory of the
\* executable, with an empty callback.  Download returns the handle before
\* the goroutine has run its first statement.
LegacyUpdate ==
    /\ pc = "off"
    /\ \E exeKnown \in BOOLEAN :
          IF ~exeKnown
             THEN /\ lastCall' = Returned("Update", "os.Executable error",
                                          FALSE, NoRelease)
                  /\ UNCHANGED dlVars
          ELSE IF latestRelease = NoRelease
             THEN /\ lastCall' = Returned("Update", Precondition, FALSE,
                                          NoRelease)
                  /\ UNCHANGED dlVars
          ELSE /\ lastCall' = Returned("Update", NoErr, FALSE, NoRelease)
               /\ size' = latestRelease.asset.Size
               /\ hasOnFinished' = TRUE
               /\ total' = Uint64(0)
               /\ finished' = 0
               /\ Err' = NoErr
               /\ pc' = IF latestRelease.asset.DownloadURL = ""
                           THEN "lstartnil" ELSE "lstart"
               /\ UNCHANGED <<reportChan, closes, body, chunk, n, calls,
                              extracted, exitPath>>
    /\ UNCHANGED <<goos, goarch, running, latestRelease, releaseQueries,
                   matched, staging, fileVars, consVars, depVars, auxVars>>

\* the construction &version.Updater{} on some platform and build
InitUpdater ==
    /\ \/ /\ goos \in {"linux", "windows"}
          /\ goarch \in Archs
          /\ running = DefaultRunning
       \/ /\ goos = "linux"
          /\ goarch = <<"arm">>
          /\ running \in Versions
    /\ latestRelease = NoRelease
    /\ releaseQueries = 0
    /\ lastCall = NoCall
    /\ matched = 0
    /\ staging = "none"
    /\ exeFile = "old"
    /\ oldFile = "none"
    /\ ipc = "idle"

NextUpdater ==
    \/ Check
    \/ Latest
    \/ Update

NextUpdaterLegacy ==
    \/ LegacyCheck
    \/ Latest
    \/ LegacyUpdate
    \/ LegacyStart

\* The callback that Update hands to Download (lines 94-97) runs
\* onDownloadFinished(tempDir) and then os.RemoveAll(tempDir).  Each action
\* below is one call of the os package with its outcomes; they are the
\* steps of the goroutine while pc = "callback".

\* lines 142-156: the callback starts; os.Executable, then os.Chmod
InstallEnter ==
    /\ pc = "callback"
    /\ ipc = "idle"
    /\ calls' = calls + 1
    /\ \E exeKnown \in BOOLEAN :
          ipc' = IF ~exeKnown THEN "cleanup"
                 ELSE IF goos = "windows" THEN "rmold"
                 ELSE "remove"
    /\ UNCHANGED <<size, hasOnFinished, pc, total, finished, reportChan,
                   closes, Err, body, chunk, n, extracted, exitPath, consVars,
                   depVars, auxVars, goos, goarch, running, latestRelease,
                   releaseQueries, lastCall, matched, staging, exeFile,
                   oldFile>>

\* the variables the steps of the installation never touch
installFrame == <<size, hasOnFinished, total, finished, reportChan, closes,
                  Err, body, chunk, n, calls, extracted, consVars, depVars, auxVars,
                  goos, goarch, running, latestRelease, releaseQueries,
                  lastCall, matched>>

\* line 159: os.Remove(oldPath), its error ignored
RemoveOld ==
    /\ pc = "callback"
    /\ ipc = "rmold"
    /\ \E removed \in BOOLEAN :
          oldFile' = IF removed THEN "none" ELSE oldFile
    /\ ipc' = "mvold"
    /\ UNCHANGED <<installFrame, pc, exitPath, staging, exeFile>>

\* RenameRunning that goes on to moveFile after a failed rename
RenameRunning_IgnoreFailure ==
    /\ pc = "callback"
    /\ ipc = "mvold"
    /\ \E renamed \in BOOLEAN :
          IF renamed
             THEN /\ oldFile' = exeFile
                  /\ exeFile' = "none"
             ELSE UNCHANGED <<oldFile, exeFile>>
    /\ ipc' = "remove"
    /\ UNCHANGED <<installFrame, pc, exitPath, staging>>

\* lines 161-164: os.Rename(exePath, oldPath); a failure ends the
\* installation
RenameRunning ==
    /\ pc = "callback"
    /\ ipc = "mvold"
    /\ \E renamed \in BOOLEAN :
          IF renamed
             THEN /\ oldFile' = exeFile
                  /\ exeFile' = "none"
                  /\ ipc' = "remove"
             ELSE /\ ipc' = "cleanup"
                  /\ UNCHANGED <<oldFile, exeFile>>
    /\ UNCHANGED <<installFrame, pc, exitPath, staging>>

\* moveFile line 178: _ = os.Remove(dst)
MoveRemove ==
    /\ pc = "callback"
    /\ ipc = "remove"
    /\ \E removed \in BOOLEAN :
          exeFile' = IF removed THEN "none" ELSE exeFile
    /\ ipc' = "rename"
    /\ UNCHANGED <<installFrame, pc, exitPath, staging, oldFile>>

\* moveFile lines 181-184: os.Rename(src, dst)
MoveRename ==
    /\ pc = "callback"
    /\ ipc = "rename"
    /\ \E renamed \in BOOLEAN :
          IF renamed
             THEN /\ exeFile' = "new"
                  /\ ipc' = "cleanup"
             ELSE /\ ipc' = "read"
                  /\ UNCHANGED exeFile
    /\ UNCHANGED <<installFrame, pc, exitPath, staging, oldFile>>

\* moveFile lines 187-190: os.ReadFile(src)
MoveRead ==
    /\ pc = "callback"
    /\ ipc = "read"
    /\ \E read \in BOOLEAN :
          ipc' = IF read THEN "write" ELSE "cleanup"
    /\ UNCHANGED <<installFrame, pc, exitPath, staging, exeFile, oldFile>>

\* moveFile line 191: os.WriteFile(dst, input, 0755) writes the whole file,
\* or stops after some of it, or cannot open dst at all
MoveWrite ==
    /\ pc = "callback"
    /\ ipc = "write"
    /\ \E written \in {"new", "partial", exeFile} : exeFile' = written
    /\ ipc' = "cleanup"
    /\ UNCHANGED <<installFrame, pc, exitPath, staging, oldFile>>

\* line 96: os.RemoveAll(tempDir), whose error is dropped: the directory
\* is removed, or stays (on windows the archive in it is still open, its
\* Close being deferred in Download); the callback returns and Download
\* goes on to its return
RemoveStaging ==
    /\ pc = "callback"
    /\ ipc = "cleanup"
    /\ staging' \in {"removed", "exists"}
    /\ ipc' = "done"
    /\ exitPath' = "success"
    /\ pc' = "return"
    /\ UNCHANGED <<installFrame, exeFile, oldFile>>

\* updateCmd after Check() and Latest() have returned a release for the
\* platform (part_004 lines 575-591)
InitChecked ==
    /\ goos \in {"linux", "windows"}
    /\ goarch = <<"arm">>
    /\ running = DefaultRunning
    /\ \E s \in Sizes, url \in {"", "u"} :
          latestRelease =
             Release([Name |-> NameOf(goos, goarch, <<>>,
                                      IF goos = "windows" THEN "zip"
                                                          ELSE "tar.gz"),
                      Size |-> s, DownloadURL |-> url],
                     DefaultTag)
    /\ releaseQueries = 1
    /\ lastCall = Returned("Latest", NoErr, FALSE, latestRelease)
    /\ matched = 1
    /\ staging = "none"
    /\ exeFile = "old"
    /\ oldFile \in IF goos = "windows" THEN {"none", "stale"} ELSE {"none"}
    /\ ipc = "idle"

\* the steps of the goroutine of Download before and after the callback
Downloading ==
    \/ Get
    \/ OpenFile
    \/ WriteAdd
    \/ WriteSend
    \/ FileWrite
    \/ CopyError
    \/ CopyEOF
    \/ Uncompress
    \/ Done

\* the steps of the callback of Update
Installing ==
    \/ InstallEnter
    \/ RemoveOld
    \/ RenameRunning
    \/ MoveRemove
    \/ MoveRename
    \/ MoveRead
    \/ MoveWrite
    \/ RemoveStaging

-----------------------------------------------------------------------------
(* Part 5: the extraction of an archive: uncompressToDir, uncompressTarFile *)
(* and unzipFile of src/unnamed/part_000, and extractTarGz of src/http.go.  *)
(* A path is the sequence of its components, counted from the root of the  *)
(* file system after filepath.Clean.                                       *)

\* largest number of entries in an archive
MaxEntries == 2

\* the directory handed to the extraction
DestDir == <<"dest">>

RECURSIVE CleanOnto(_, _)
\* filepath.Clean of a rooted path, one component at a time: ".." drops
\* the last component kept so far, and stays at the root
CleanOnto(done, todo) ==
    IF todo = <<>> THEN done
    ELSE IF Head(todo) = ".."
       THEN CleanOnto(IF done = <<>> THEN <<>>
                      ELSE SubSeq(done, 1, Len(done) - 1), Tail(todo))
    ELSE CleanOnto(Append(done, Head(todo)), Tail(todo))

\* filepath.Join(dir, name)
Join(dir, name) == CleanOnto(<<>>, dir \o name)

\* the path and its ancestors, the root included
Prefixes(p) == {SubSeq(p, 1, k) : k \in 0 .. Len(p)}
Under(dir, p) == Len(p) >= Len(dir) /\ SubSeq(p, 1, Len(dir)) = dir

IsFile(files, p) == \E f \in files : f.path = p

\* os.MkdirAll(p): fails when p or an ancestor is a regular file, makes
\* every missing ancestor otherwise
MkdirAll(dirs, files, p) ==
    IF \E q \in Prefixes(p) : IsFile(files, q)
       THEN [err |-> "not a directory", dirs |-> dirs]
       ELSE [err |-> NoErr, dirs |-> dirs \cup Prefixes(p)]

\* os.Create(p), or os.OpenFile with O_CREATE|O_TRUNC, followed by the copy
\* of the content: fails when the parent is missing or p is a directory
Create(dirs, files, p, data) ==
    IF p = <<>> \/ p \in dirs \/ SubSeq(p, 1, Len(p) - 1) \notin dirs
       THEN [err |-> "cannot create file", files |-> files]
       ELSE [err |-> NoErr,
             files |-> {f \in files : f.path # p} \cup
                       {[path |-> p, data |-> data]}]

\* the entries an archive may hold: a directory, a regular file with its
\* content, or another type (a symbolic link); a second content and the
\* other type are tried on one name each
EntryNames == {<<"a">>, <<"a", "b">>, <<"c">>, <<"..", "e">>}
Entries ==
    {[name |-> nm, type |-> "dir", data |-> ""] : nm \in EntryNames} \cup
    {[name |-> nm, type |-> "reg", data |-> "x"] : nm \in EntryNames} \cup
    {[name |-> <<"a">>, type |-> "reg", data |-> "y"],
     [name |-> <<"c">>, type |-> "other", data |-> "x"]}
Archives == SeqUpTo(Entries, MaxEntries)

\* one turn of the loop of uncompressTarFile (part_000 lines 169-187) and
\* of extractTarGz (src/http.go lines 166-183): other types are skipped
TarEntry(dirs, files, dest, e) ==
    IF e.type = "dir"
       THEN LET m == MkdirAll(dirs, files, Join(dest, e.name))
            IN  [err |-> m.err, dirs |-> m.dirs, files |-> files]
    ELSE IF e.type = "reg"
       THEN LET c == Create(dirs, files, Join(dest, e.name), e.data)
            IN  [err |-> c.err, dirs |-> dirs, files |-> c.files]
    ELSE [err |-> NoErr, dirs |-> dirs, files |-> files]

\* the turn for a regular file whose content cannot be read to its end
\* (part_000 lines 178-185, src/http.go lines 174-181): the file is created
\* or truncated, then io.Copy (in unzipFile, f.Open before it, lines
\* 221-230) returns the error err; data is what was written
CutEntry(dirs, files, dest, e, data, err) ==
    LET c == Create(dirs, files, Join(dest, e.name), data)
    IN  [err |-> IF c.err = NoErr THEN err ELSE c.err,
         dirs |-> dirs, files |-> c.files]

\* one turn of the loop of unzipFile (part_000 lines 204-231): whatever is
\* no directory is written as a file
ZipEntry(dirs, files, dest, e) ==
    IF e.type = "dir"
       THEN LET m == MkdirAll(dirs, files, Join(dest, e.name))
            IN  [err |-> m.err, dirs |-> m.dirs, files |-> files]
       ELSE LET c == Create(dirs, files, Join(dest, e.name), e.data)
            IN  [err |-> c.err, dirs |-> dirs, files |-> c.files]

\* strings.HasSuffix on names that are sequences of tokens
HasSuffix(name, suffix) ==
    /\ Len(name) >= Len(suffix)
    /\ SubSeq(name, Len(name) - Len(suffix) + 1, Len(name)) = suffix

\* the names a downloaded file may have
ArchiveNames ==
    {NameOf("linux", <<"arm">>, <<>>, "tar.gz"),
     NameOf("windows", <<"arm">>, <<>>, "zip"),
     NameOf("linux", <<"arm">>, <<>>, "tar.gz") \o <<".", "sha256">>,
     NameOf("windows", <<"arm">>, <<>>, "exe")}

\* what the part of Download around the extraction leaves alone
extractFrame ==
    UNCHANGED <<size, hasOnFinished, total, finished, reportChan, closes,
                body, chunk, n, calls, consVars, depVars, updVars, arcName,
                bunVars, parVars, lateVars>>

\* uncompressToDir that takes every file for a tarball
UncompressToDir_DefaultTar ==
    /\ pc = "extract"
    /\ xpc = "idle"
    /\ \E a \in Archives : arcEntries' = a
    /\ xpc' = "tar"
    /\ UNCHANGED <<pc, Err, exitPath, extracted, arcNext, fsDirs, fsFiles,
                   xerr>>
    /\ extractFrame

\* uncompressToDir (part_000 lines 128-148): the suffix of the file name
\* selects uncompressTarFile or unzipFile, which open their readers (lines
\* 151-158 and 194-202); any other name is an error
UncompressToDir ==
    /\ pc = "extract"
    /\ xpc = "idle"
    /\ IF HasSuffix(arcName, <<".", "tar.gz">>)
          THEN /\ xpc' = "tar"
               /\ \/ /\ Fail("failed to create gzip reader", "extract")
                     /\ UNCHANGED arcEntries
                  \/ /\ \E a \in Archives : arcEntries' = a
                     /\ UNCHANGED <<pc, Err, exitPath>>
       ELSE IF HasSuffix(arcName, <<".", "zip">>)
          THEN /\ xpc' = "zip"
               /\ \/ /\ Fail("zip: not a valid zip file", "extract")
                     /\ UNCHANGED arcEntries
                  \/ /\ \E a \in Archives : arcEntries' = a
                     /\ UNCHANGED <<pc, Err, exitPath>>
       ELSE /\ xpc' = "unknown"
            /\ Fail("Unknown release format", "extract")
            /\ UNCHANGED arcEntries
    /\ UNCHANGED <<extracted, arcNext, fsDirs, fsFiles, xerr>>
    /\ extractFrame

\* the end of the entries: the extractor returns nil, and so does
\* uncompressToDir (line 147)
ExtractReturn ==
    /\ extracted' = TRUE
    /\ pc' = "callback"
    /\ UNCHANGED <<Err, exitPath, arcNext, fsDirs, fsFiles>>

\* the result r of one entry: the loop goes on, or the error is returned
\* to Download, which stores it in the handle (lines 116-119)
ExtractStep(r) ==
    /\ fsDirs' = r.dirs
    /\ fsFiles' = r.files
    /\ arcNext' = arcNext + 1
    /\ IF r.err = NoErr
          THEN UNCHANGED <<pc, Err, exitPath>>
          ELSE Fail(r.err, "extract")
    /\ UNCHANGED extracted

\* uncompressTarFile, one turn of its loop (lines 160-188): tr.Next fails
\* (also after the last entry, on a bad trailer), or it gives the end of
\* the archive, or an entry, whose content may end early
UncompressTarFile ==
    /\ pc = "extract"
    /\ xpc = "tar"
    /\ \/ /\ Fail("unexpected EOF", "extract")
          /\ UNCHANGED <<extracted, arcNext, fsDirs, fsFiles>>
       \/ IF arcNext > Len(arcEntries)
             THEN ExtractReturn
             ELSE \/ ExtractStep(TarEntry(fsDirs, fsFiles, DestDir,
                                          arcEntries[arcNext]))
                  \/ /\ arcEntries[arcNext].type = "reg"
                     /\ ExtractStep(CutEntry(fsDirs, fsFiles, DestDir,
                                             arcEntries[arcNext], "",
                                             "unexpected EOF"))
    /\ UNCHANGED <<arcEntries, xpc, xerr>>
    /\ extractFrame

\* unzipFile, one turn of its loop (lines 204-231); after os.Create, f.Open
\* or io.Copy may fail (unsupported method, wrong checksum), with nothing
\* or all of the content written
UnzipFile ==
    /\ pc = "extract"
    /\ xpc = "zip"
    /\ IF arcNext > Len(arcEntries)
          THEN ExtractReturn
          ELSE \/ ExtractStep(ZipEntry(fsDirs, fsFiles, DestDir,
                                       arcEntries[arcNext]))
               \/ /\ arcEntries[arcNext].type # "dir"
                  /\ \E data \in {"", arcEntries[arcNext].data} :
                        ExtractStep(CutEntry(fsDirs, fsFiles, DestDir,
                                             arcEntries[arcNext], data,
                                             "zip: checksum error"))
    /\ UNCHANGED <<arcEntries, xpc, xerr>>
    /\ extractFrame

\* what the extraction of a package leaves alone
packageFrame ==
    UNCHANGED <<dlVars, consVars, depVars, updVars, arcName, bunVars,
                parVars, lateVars>>

\* extractTarGz(archivePath, destDir) up to its loop (src/http.go lines
\* 139-156): the readers are opened, then os.MkdirAll(destDir)
ExtractTarGz(archive) ==
    /\ pc = "off"
    /\ xpc = "idle"
    /\ \/ /\ xerr' = "gzip: invalid header"
          /\ xpc' = "returned"
          /\ UNCHANGED <<arcEntries, fsDirs>>
       \/ LET m == MkdirAll(fsDirs, fsFiles, DestDir)
          IN  /\ fsDirs' = m.dirs
              /\ xerr' = m.err
              /\ xpc' = IF m.err = NoErr THEN "package" ELSE "returned"
              /\ arcEntries' = archive
    /\ UNCHANGED <<arcNext, fsFiles>>
    /\ packageFrame

\* downloadPackage (src/http.go lines 95-135) once the archive is in the
\* temporary file: extractTarGz(tmpPath, extractDir)
downloadPackage == \E a \in Archives : ExtractTarGz(a)

\* extractTarGz, one turn of its loop (src/http.go lines 157-186): tr.Next
\* fails, or gives the end of the archive, or an entry, whose content may
\* end early after the file was created
ExtractTarGzEntry ==
    /\ xpc = "package"
    /\ \/ /\ xerr' = "unexpected EOF"
          /\ xpc' = "returned"
          /\ UNCHANGED <<arcNext, fsDirs, fsFiles>>
       \/ IF arcNext > Len(arcEntries)
             THEN /\ xpc' = "returned"
                  /\ UNCHANGED <<arcNext, fsDirs, fsFiles, xerr>>
             ELSE \E cut \in BOOLEAN :
                     /\ cut => arcEntries[arcNext].type = "reg"
                     /\ LET e == arcEntries[arcNext]
                            r == IF cut
                                    THEN CutEntry(fsDirs, fsFiles, DestDir,
                                                  e, "", "unexpected EOF")
                                    ELSE TarEntry(fsDirs, fsFiles, DestDir, e)
                        IN  /\ fsDirs' = r.dirs
                            /\ fsFiles' = r.files
                            /\ arcNext' = arcNext + 1
                            /\ xerr' = r.err
                            /\ xpc' = IF r.err = NoErr THEN "package"
                                      ELSE "returned"
    /\ UNCHANGED arcEntries
    /\ packageFrame

\* no extraction is running
IdleArchive ==
    /\ arcName = <<>>
    /\ arcEntries = <<>>
    /\ arcNext = 1
    /\ fsDirs = {}
    /\ fsFiles = {}
    /\ xpc = "idle"
    /\ xerr = NoErr

-----------------------------------------------------------------------------
(* Part 6: PackageCreator.CreatePackage of src/bundler/bundler.go.  Paths  *)
(* and rules are strings; the source tree is a set of nodes below srcDir.  *)

\* largest number of rules given by the caller, and by the manifest
MaxRules == 1

HasPrefix(s, prefix) ==
    Len(s) >= Len(prefix) /\ SubSeq(s, 1, Len(prefix)) = prefix

\* strings.TrimSuffix
TrimSuffix(s, suffix) ==
    IF HasSuffix(s, suffix) THEN SubSeq(s, 1, Len(s) - Len(suffix)) ELSE s

RECURSIVE filepathMatch(_, _)
\* filepath.Match(pattern, name) for patterns of literals, "*" and "?":
\* "*" stands for any run of characters other than "/", "?" for one such
\* character, and any other character, "/" too, for itself
filepathMatch(pattern, name) ==
    IF pattern = "" THEN name = ""
    ELSE IF Head(pattern) = "*"
       THEN \/ filepathMatch(Tail(pattern), name)
            \/ /\ name # ""
               /\ Head(name) # "/"
               /\ filepathMatch(pattern, Tail(name))
    ELSE /\ name # ""
         /\ IF Head(pattern) = "?" THEN Head(name) # "/"
            ELSE Head(pattern) = Head(name)
         /\ filepathMatch(Tail(pattern), Tail(name))

\* the body of the loop of shouldExclude for one pattern (lines 151-176)
PatternMatches(pattern, path) ==
    \/ path = pattern
    \/ /\ HasSuffix(pattern, "/")
       /\ HasPrefix(path, TrimSuffix(pattern, "/") \o "/")
    \/ /\ HasSuffix(pattern, "*")
       /\ HasPrefix(path, TrimSuffix(pattern, "*"))
    \/ filepathMatch(pattern, path)

RECURSIVE shouldExclude(_, _)
\* shouldExclude(path, patterns): true at the first pattern that matches
shouldExclude(path, patterns) ==
    IF patterns = <<>> THEN FALSE
    ELSE IF PatternMatches(Head(patterns), path) THEN TRUE
    ELSE shouldExclude(path, Tail(patterns))

RECURSIVE SplitOnto(_, _, _)
\* the components of a slash-separated name
SplitOnto(done, cur, s) ==
    IF s = "" THEN Append(done, cur)
    ELSE IF Head(s) = "/" THEN SplitOnto(Append(done, cur), "", Tail(s))
    ELSE SplitOnto(done, cur \o Head(s), Tail(s))
Split(s) == SplitOnto(<<>>, "", s)

\* the entries a source directory may have below srcDir, in the lexical
\* order in which filepath.Walk visits them
Node(path, type, data) == [path |-> path, type |-> type, data |-> data]
WalkOrder ==
    <<Node(".git", "dir", ""),
      Node(".git/config", "reg", "c"),
      Node("exact.txt", "reg", "e"),
      Node("lib.typ", "reg", "l"),
      Node("node_modules", "dir", ""),
      Node("node_modules/m.txt", "reg", "m"),
      Node("typst.toml", "reg", "t")>>

\* a source tree holds the directory of every entry it holds
Below(dir, path) == HasPrefix(path, dir \o "/")
Trees ==
    {t \in SUBSET Range(WalkOrder) :
        /\ \A nd \in Range(WalkOrder) :
              (nd.type = "reg" /\ Len(Split(nd.path)) = 1) => nd \in t
        /\ \A nd \in t : \A d \in Range(WalkOrder) :
              Below(d.path, nd.path) => d \in t}

\* the rules of --exclude and of the exclude field
Rules ==
    {".git", "node_modules/", "exact.txt", "*.txt", "node*", "??b*",
     "*/config"}
RuleLists == SeqUpTo(Rules, MaxRules)

\* the rules the exclude field of typst.toml may hold
ManifestRules == {".git", "*.txt"}

\* typst.toml as CreatePackage sees it: whether os.ReadFile and the
\* decoder succeed, whether [package] is present, and its fields
Manifests ==
    {[read |-> r, parsed |-> p, hasPackage |-> h, Name |-> "pkg",
      Version |-> "1", Entrypoint |-> "lib.typ", Exclude |-> <<>>] :
        r, p, h \in BOOLEAN} \cup
    {[read |-> TRUE, parsed |-> TRUE, hasPackage |-> TRUE, Name |-> nm,
      Version |-> v, Entrypoint |-> ep, Exclude |-> <<>>] :
        nm \in {"", "pkg"}, v \in {"", "1"}, ep \in {"", "lib.typ"}} \cup
    {[read |-> TRUE, parsed |-> TRUE, hasPackage |-> TRUE, Name |-> "pkg",
      Version |-> "1", Entrypoint |-> "lib.typ", Exclude |-> ex] :
        ex \in SeqUpTo(ManifestRules, MaxRules)}

\* validateManifest (lines 123-142)
validateManifest(m) ==
    IF ~m.hasPackage THEN "missing [package] section in typst.toml"
    ELSE IF m.Name = "" THEN "package name is required in typst.toml"
    ELSE IF m.Version = "" THEN "package version is required in typst.toml"
    ELSE IF m.Entrypoint = ""
       THEN "package entrypoint is required in typst.toml"
    ELSE NoErr

\* the error of lines 28-42, NoErr when the manifest passes
ManifestError(m) ==
    IF ~m.read THEN "failed to read typst.toml"
    ELSE IF ~m.parsed THEN "failed to parse typst.toml"
    ELSE validateManifest(m)

\* the last component of a path
Base(path) == LET c == Split(path) IN c[Len(c)]

\* a header named after the last component only
Header_BaseName(nd) ==
    [name |-> <<Base(nd.path)>>, type |-> nd.type, data |-> nd.data]

\* tar.FileInfoHeader with header.Name = filepath.ToSlash(relPath) (lines
\* 87-93), and the content copied for whatever is no directory
Header(nd) == [name |-> Split(nd.path), type |-> nd.type, data |-> nd.data]

\* what CreatePackage leaves alone
bundleFrame ==
    UNCHANGED <<dlVars, consVars, depVars, updVars, arcVars, parVars,
                lateVars, srcTree>>

\* the directories the bundle command is given: the working directory, or
\* a directory pkg in it
SrcDirs == {".", "pkg"}

\* the output of the bundle command without --output (part_004 lines
\* 450-454)
DefaultOutput(srcDir) == Base(srcDir) \o ".tar.gz"

\* the output path, relative to the working directory, names a file in the
\* source directory
InSource(srcDir, outputPath) ==
    srcDir = "." /\ Len(Split(outputPath)) = 1

\* the paths filepath.Walk passes to the walk function, in lexical order,
\* after os.Create(outputPath) (lines 50-63): the entries of the source
\* tree and, when it lies in the source directory, the output file, which
\* is empty as long as the gzip writer has flushed nothing; "..tar.gz" is
\* the first in the order
Walked(srcDir, outputPath) ==
    (IF InSource(srcDir, outputPath)
        THEN <<Node(outputPath, "reg", "")>> ELSE <<>>)
    \o SelectSeq(WalkOrder, LAMBDA nd : nd \in srcTree)

\* CreatePackage that makes the output file before it reads the manifest
CreatePackage_CreateFirst(exclude, m, srcDir, outputPath) ==
    /\ bpc = "idle"
    /\ manifest' = m
    /\ outFile' = "created"
    /\ IF ManifestError(m) # NoErr
          THEN /\ berr' = ManifestError(m)
               /\ bpc' = "returned"
               /\ UNCHANGED <<rules, walkTodo>>
          ELSE /\ rules' = exclude \o m.Exclude
               /\ walkTodo' = Walked(srcDir, outputPath)
               /\ bpc' = "walk"
               /\ UNCHANGED berr
    /\ UNCHANGED <<bundle, evaluated>>
    /\ bundleFrame

\* CreatePackage(srcDir, outputPath) up to the call of filepath.Walk
\* (lines 26-62) on a creator made by NewPackageCreator(exclude)
CreatePackage(exclude, m, srcDir, outputPath) ==
    /\ bpc = "idle"
    /\ manifest' = m
    /\ IF ManifestError(m) # NoErr
          THEN /\ berr' = ManifestError(m)
               /\ bpc' = "returned"
               /\ UNCHANGED <<rules, outFile, walkTodo>>
          ELSE /\ rules' = exclude \o m.Exclude
               /\ \/ /\ berr' = "failed to create output file"
                     /\ bpc' = "returned"
                     /\ UNCHANGED <<outFile, walkTodo>>
                  \/ /\ outFile' = "created"
                     /\ walkTodo' = Walked(srcDir, outputPath)
                     /\ bpc' = "walk"
                     /\ UNCHANGED berr
    /\ UNCHANGED <<bundle, evaluated>>
    /\ bundleFrame

\* the bundle command (part_004 lines 450-458)
Bundle ==
    \E ex \in RuleLists, m \in Manifests, srcDir \in SrcDirs :
       CreatePackage(ex, m, srcDir, DefaultOutput(srcDir))

\* the walk function that returns nil for an excluded directory
Walk_Descend ==
    /\ bpc = "walk"
    /\ IF walkTodo = <<>>
          THEN /\ bpc' = "returned"
               /\ UNCHANGED <<walkTodo, bundle, evaluated, berr>>
          ELSE LET nd == Head(walkTodo)
               IN  /\ evaluated' = Append(evaluated, nd.path)
                   /\ walkTodo' = Tail(walkTodo)
                   /\ bundle' = IF shouldExclude(nd.path, rules) THEN bundle
                                ELSE Append(bundle, Header(nd))
                   /\ UNCHANGED <<bpc, berr>>
    /\ UNCHANGED <<manifest, rules, outFile>>
    /\ bundleFrame

\* filepath.Walk(srcDir, ...), one call of the walk function (lines 63-114;
\* the root, whose relative path is ".", is passed over), or its return
Walk ==
    /\ bpc = "walk"
    /\ IF walkTodo = <<>>
          THEN /\ bpc' = "returned"
               /\ UNCHANGED <<walkTodo, bundle, evaluated, berr>>
          ELSE LET nd == Head(walkTodo)
               IN  /\ evaluated' = Append(evaluated, nd.path)
                   /\ IF shouldExclude(nd.path, rules)
                         THEN /\ walkTodo' =
                                    IF nd.type = "dir"
                                       THEN SelectSeq(Tail(walkTodo),
                                               LAMBDA o :
                                                  ~Below(nd.path, o.path))
                                       ELSE Tail(walkTodo)
                              /\ UNCHANGED <<bundle, bpc, berr>>
                         ELSE \/ /\ bundle' = Append(bundle, Header(nd))
                                 /\ walkTodo' = Tail(walkTodo)
                                 /\ UNCHANGED <<bpc, berr>>
                              \/ /\ nd.type = "reg"
                                 /\ bundle' = Append(bundle,
                                                 [Header(nd) EXCEPT
                                                     !.data = ""])
                                 /\ berr' = "failed to create package"
                                 /\ bpc' = "returned"
                                 /\ UNCHANGED walkTodo
    /\ UNCHANGED <<manifest, rules, outFile>>
    /\ bundleFrame

\* the archive that CreatePackage wrote is extracted into an empty cache
ExtractBundle ==
    /\ bpc = "returned"
    /\ berr = NoErr
    /\ ExtractTarGz(bundle)

\* no bundle command is running
IdleBundler ==
    /\ srcTree = {}
    /\ manifest = CHOOSE m \in Manifests : TRUE
    /\ rules = <<>>
    /\ outFile = "absent"
    /\ walkTodo = <<>>
    /\ bundle = <<>>
    /\ evaluated = <<>>
    /\ bpc = "idle"
    /\ berr = NoErr

\* the bundle command has found the source directory and its typst.toml;
\* the output file may exist already
InitBundler ==
    /\ srcTree \in Trees
    /\ manifest = CHOOSE m \in Manifests : TRUE
    /\ rules = <<>>
    /\ outFile \in {"absent", "old"}
    /\ walkTodo = <<>>
    /\ bundle = <<>>
    /\ evaluated = <<>>
    /\ bpc = "idle"
    /\ berr = NoErr

-----------------------------------------------------------------------------
(* Part 7: Dependency.Key and ExtractFromSource of src/unnamed/part_002.   *)
(* The content of a .typ file is the sequence of its lines, each a string. *)

\* largest number of lines of a source file
MaxLines == 2

\* the character of s at position i, counted from 1
Char(s, i) == SubSeq(s, i, i)

\* s holds sub at position i
At(s, i, sub) ==
    i + Len(sub) - 1 <= Len(s) /\ SubSeq(s, i, i + Len(sub) - 1) = sub

\* bytes.Index(s, sub), counted from 0, and -1 when sub is not in s
Index(s, sub) ==
    IF \E i \in 1 .. Len(s) : At(s, i, sub)
       THEN (CHOOSE i \in 1 .. Len(s) :
                At(s, i, sub) /\ \A j \in 1 .. i - 1 : ~At(s, j, sub)) - 1
       ELSE -1

\* s[from:], from counted from 0
SliceFrom(s, from) == SubSeq(s, from + 1, Len(s))
\* s[:to]
SliceTo(s, to) == SubSeq(s, 1, to)

\* the class \s of the regular expression: [\t\n\f\r ]
IsSpace(c) == c \in {" ", "\t", "\n", "\f", "\r"}

\* the white space of bytes.TrimSpace: that of unicode.IsSpace, which has
\* the vertical tab, U+0085 and U+00A0 besides
IsWhite(c) == IsSpace(c) \/ c \in {"", "", " "}

RECURSIVE TrimSpace(_)
\* bytes.TrimSpace
TrimSpace(s) ==
    IF s = "" THEN s
    ELSE IF IsWhite(Char(s, 1)) THEN TrimSpace(Tail(s))
    ELSE IF IsWhite(Char(s, Len(s))) THEN TrimSpace(SliceTo(s, Len(s) - 1))
    ELSE s

\* the first position from i on where s holds the character c, 0 if none
FirstAt(s, i, c) ==
    IF \E j \in i .. Len(s) : Char(s, j) = c
       THEN CHOOSE j \in i .. Len(s) :
               Char(s, j) = c /\ \A k \in i .. j - 1 : Char(s, k) # c
       ELSE 0

\* the end of \s* from i on: the first position that holds no character
\* of the class, Len(s) + 1 if none
SpacesEnd(s, i) ==
    CHOOSE j \in i .. Len(s) + 1 :
       /\ \A k \in i .. j - 1 : IsSpace(Char(s, k))
       /\ j <= Len(s) => ~IsSpace(Char(s, j))

NoMatch == [ok |-> FALSE, dep |-> Ref("", "", ""), end |-> 0]

\* importRegex anchored at position i:
\*   #import\s+"@([^/]+)/([^:]+):([^"]+)"
\* each group runs up to the first character that ends it
MatchAt(s, i) ==
    IF ~At(s, i, "#import") THEN NoMatch
    ELSE LET sp == SpacesEnd(s, i + 7)
         IN  IF sp = i + 7 \/ ~At(s, sp, "\"@") THEN NoMatch
             ELSE LET slash == FirstAt(s, sp + 2, "/")
                  IN  IF slash <= sp + 2 THEN NoMatch
                      ELSE LET colon == FirstAt(s, slash + 1, ":")
                           IN  IF colon <= slash + 1 THEN NoMatch
                               ELSE LET quote == FirstAt(s, colon + 1, "\"")
                                    IN  IF quote <= colon + 1 THEN NoMatch
                                        ELSE [ok |-> TRUE,
                                              dep |-> Ref(
                                                 SubSeq(s, sp + 2, slash - 1),
                                                 SubSeq(s, slash + 1,
                                                        colon - 1),
                                                 SubSeq(s, colon + 1,
                                                        quote - 1)),
                                              end |-> quote]

RECURSIVE FindAllFrom(_, _)
\* importRegex.FindAllSubmatch(s, -1): the matches from the left, none
\* overlapping another
FindAllFrom(s, i) ==
    IF i > Len(s) THEN <<>>
    ELSE IF MatchAt(s, i).ok
       THEN <<MatchAt(s, i).dep>> \o FindAllFrom(s, MatchAt(s, i).end + 1)
    ELSE FindAllFrom(s, i + 1)
FindAllSubmatch(s) == FindAllFrom(s, 1)

\* the block-comment branch of the loop (lines 45-54), on the text t
CutBlock(t) ==
    LET idx == Index(t, "/*")
    IN  IF idx < 0 THEN [text |-> t, open |-> FALSE]
        ELSE LET closeIdx == Index(SliceFrom(t, idx + 2), "*/")
             IN  IF closeIdx >= 0
                    THEN [text |-> SliceTo(t, idx) \o
                                   SliceFrom(t, idx + 2 + closeIdx + 2),
                          open |-> FALSE]
                    ELSE [text |-> SliceTo(t, idx), open |-> TRUE]

\* the line-comment branches (lines 56-62); skip stands for continue
CutLine(t) ==
    IF HasPrefix(t, "//") THEN [text |-> "", skip |-> TRUE]
    ELSE IF Index(t, "//") >= 0
       THEN [text |-> SliceTo(t, Index(t, "//")), skip |-> FALSE]
    ELSE [text |-> t, skip |-> FALSE]

\* one turn of the loop of ExtractFromSource before the regular expression
\* is applied (lines 33-62): the text that is left of the line, and
\* inBlockComment after it
StripLine(line, inBlock) ==
    LET trimmed == TrimSpace(line)
        closeAt == Index(trimmed, "*/")
    IN  IF inBlock /\ closeAt < 0 THEN [text |-> "", inBlock |-> TRUE]
        ELSE LET t0 == IF inBlock THEN SliceFrom(trimmed, closeAt + 2)
                       ELSE trimmed
                 b == CutBlock(t0)
             IN  [text |-> CutLine(b.text).text, inBlock |-> b.open]

RECURSIVE AddNew(_, _)
\* the loop over the matches (lines 65-77): a dependency is appended
\* unless its key was seen
AddNew(found, new) ==
    IF new = <<>> THEN found
    ELSE IF Key(Head(new)) \in {Key(found[i]) : i \in 1 .. Len(found)}
       THEN AddNew(found, Tail(new))
    ELSE AddNew(Append(found, Head(new)), Tail(new))

\* the lines a source file may hold
Lines ==
    {"#import \"@p/a:1\"",
     "#import \"@p/ab:1\"",
     "#import \"@pa/b:1\"",
     "// #import \"@p/a:1\"",
     "/* #import \"@p/a:1\" */",
     "/*",
     "*/",
     "#import \"@p/a:1\" // c",
     "/* c */ #import \"@p/a:1\"",
     "// /*",
     "/* c */ /* #import \"@p/a:1\" */",
     " #import  \"@q/a:2\": f; #import \"@p/a:1\"",
     "#import \"@p/a:1\"\r",
     "#import\r\f\"@q/a:2\"",
     "#import\"@p/a:1\" "}
Contents == SeqUpTo(Lines, MaxLines)

\* what ExtractFromSource leaves alone
parseFrame ==
    UNCHANGED <<dlVars, consVars, depVars, updVars, arcVars, bunVars,
                lateVars, content>>

\* ExtractFromSource(content), one turn of its loop over the lines, or
\* its return (lines 33-80)
ExtractFromSource ==
    /\ ppc = "scan"
    /\ IF lineNo > Len(content)
          THEN /\ ppc' = "returned"
               /\ UNCHANGED <<lineNo, inBlockComment, deps, seen>>
          ELSE LET r == StripLine(content[lineNo], inBlockComment)
                   found == AddNew(deps, FindAllSubmatch(r.text))
               IN  /\ inBlockComment' = r.inBlock
                   /\ deps' = found
                   /\ seen' = {Key(found[i]) : i \in 1 .. Len(found)}
                   /\ lineNo' = lineNo + 1
                   /\ UNCHANGED ppc
    /\ parseFrame

\* no source file is being scanned
IdleParser ==
    /\ content = <<>>
    /\ lineNo = 1
    /\ inBlockComment = FALSE
    /\ deps = <<>>
    /\ seen = {}
    /\ ppc = "idle"

\* ExtractFromSource was called on the content of a file (lines 26-31)
InitParser ==
    /\ content \in Contents
    /\ lineNo = 1
    /\ inBlockComment = FALSE
    /\ deps = <<>>
    /\ seen = {}
    /\ ppc = "scan"

-----------------------------------------------------------------------------
(* Part 8: config.Load and config.Save of src/unnamed/part_001.  The file  *)
(* settings.json is empty or holds one JSON object, the sequence of its    *)
(* members; paths are strings.                                             *)

\* what defaultCacheDir returns, and the working directory
DefaultCacheDir == "/home/u/.cache/typst/packages"
Cwd == "/cwd"

\* the values TYPST_PACKAGE_CACHE_PATH may have, "" when it is unset
EnvValues == {"", "/env", "rel", "/missing", "/file"}

\* os.Stat(path) in the file system of the model
Stat(path) ==
    IF path \in {"/env", "rel"} THEN "dir"
    ELSE IF path = "/file" THEN "file"
    ELSE "missing"

\* filepath.Abs
Abs(path) == IF HasPrefix(path, "/") THEN path ELSE Cwd \o "/" \o path

\* Config (lines 16-20)
Config(access, refresh, path) ==
    [AccessToken |-> access, RefreshToken |-> refresh,
     TypstCachePkgPath |-> path]
Configs ==
    {Config(a, r, p) : a \in {"", "a0"}, r \in {"", "r0"},
                       p \in {"", "/saved"}}

\* json.NewEncoder(configFile).Encode(&cfg): refreshToken is omitempty
Encode(cfg) ==
    <<<<"accessToken", cfg.AccessToken>>>> \o
    (IF cfg.RefreshToken = "" THEN <<>>
     ELSE <<<<"refreshToken", cfg.RefreshToken>>>>) \o
    <<<<"typstCachePkgPath", cfg.TypstCachePkgPath>>>>

RECURSIVE DecodeOnto(_, _)
\* the members of the object are stored into the Config one by one
DecodeOnto(cfg, members) ==
    IF members = <<>> THEN cfg
    ELSE LET k == Head(members)[1]
             v == Head(members)[2]
         IN  DecodeOnto(
                IF k = "accessToken" THEN [cfg EXCEPT !.AccessToken = v]
                ELSE IF k = "refreshToken"
                   THEN [cfg EXCEPT !.RefreshToken = v]
                ELSE IF k = "typstCachePkgPath"
                   THEN [cfg EXCEPT !.TypstCachePkgPath = v]
                ELSE cfg,
                Tail(members))

\* a file that is no JSON
BadJson == <<<<<<"?", "">>>>>>

\* json.NewDecoder(configFile).Decode(&appConfig) on the content of the file
Decode(file) ==
    IF file = <<>> THEN [cfg |-> Config("", "", ""), err |-> "EOF"]
    ELSE IF file = BadJson
       THEN [cfg |-> Config("", "", ""), err |-> "invalid character"]
    ELSE [cfg |-> DecodeOnto(Config("", "", ""), file[1]), err |-> NoErr]

\* the contents settings.json may have before the program runs
SettingsFiles ==
    {<<>>, BadJson, <<<<<<"typstCachePkgPath", "/saved">>>>>>} \cup
    {<<Encode(c)>> : c \in Configs}

\* Load that lets the saved path win over the environment
LoadResult_SavedFirst(file, env) ==
    LET d == Decode(file)
    IN  IF d.err \notin {NoErr, "EOF"}
           THEN [done |-> TRUE, cfg |-> Config("", "", ""), err |-> d.err]
        ELSE IF d.cfg.TypstCachePkgPath # ""
           THEN [done |-> TRUE, cfg |-> d.cfg, err |-> NoErr]
        ELSE [done |-> TRUE,
              cfg |-> [d.cfg EXCEPT !.TypstCachePkgPath =
                          IF env # "" /\ Stat(env) = "dir" THEN Abs(env)
                          ELSE DefaultCacheDir],
              err |-> NoErr]

\* Load() once the file is open (lines 46-79)
LoadResult(file, env) ==
    LET d == Decode(file)
    IN  IF d.err \notin {NoErr, "EOF"}
           THEN [done |-> TRUE, cfg |-> Config("", "", ""), err |-> d.err]
        ELSE IF env # ""
           THEN IF Stat(env) = "missing"
                   THEN [done |-> TRUE, cfg |-> d.cfg,
                         err |-> "Invalid path for TYPST_PACKAGE_CACHE_PATH"]
                ELSE IF Stat(env) # "dir"
                   THEN [done |-> TRUE, cfg |-> d.cfg,
                         err |-> "Path is not a directory"]
                ELSE [done |-> TRUE,
                      cfg |-> [d.cfg EXCEPT !.TypstCachePkgPath = Abs(env)],
                      err |-> NoErr]
        ELSE [done |-> TRUE,
              cfg |-> IF d.cfg.TypstCachePkgPath = ""
                         THEN [d.cfg EXCEPT
                                  !.TypstCachePkgPath = DefaultCacheDir]
                         ELSE d.cfg,
              err |-> NoErr]

\* the content of the file after a write at offset 0 that does not
\* truncate it
SaveResult_NoTruncate(file, cfg) ==
    LET new == Encode(IF cfg.TypstCachePkgPath = ""
                         THEN [cfg EXCEPT
                                  !.TypstCachePkgPath = DefaultCacheDir]
                         ELSE cfg)
        old == IF file = <<>> \/ file = BadJson THEN <<>> ELSE file[1]
    IN  <<new \o SubSeq(old, Len(new) + 1, Len(old))>>

\* the content of the file after Save(cfg) (lines 84-98): O_TRUNC, the
\* default in place of an empty path, then the encoding
SaveResult(file, cfg) ==
    <<Encode(IF cfg.TypstCachePkgPath = ""
                THEN [cfg EXCEPT !.TypstCachePkgPath = DefaultCacheDir]
                ELSE cfg)>>

NotDone == [done |-> FALSE, cfg |-> Config("", "", ""), err |-> NoErr]

\* Load() (lines 36-80)
Load ==
    /\ \/ loaded' = [done |-> TRUE, cfg |-> Config("", "", ""),
                     err |-> "open error"]
       \/ loaded' = LoadResult(settings, cacheEnv)
    /\ UNCHANGED <<settings, cacheEnv, saved>>
    /\ UNCHANGED <<dlVars, consVars, depVars, updVars, arcVars, bunVars,
                   parVars, reqVars>>

\* Save(cfg) (lines 82-101): os.OpenFile fails; or it truncates the file
\* and Encode fails, which leaves the file empty; or the file holds cfg
Save(cfg) ==
    /\ \/ /\ saved' = [done |-> TRUE, cfg |-> cfg, err |-> "open error"]
          /\ UNCHANGED settings
       \/ /\ saved' = [done |-> TRUE, cfg |-> cfg, err |-> "write error"]
          /\ settings' = <<>>
       \/ /\ saved' = [done |-> TRUE, cfg |-> cfg, err |-> NoErr]
          /\ settings' = SaveResult(settings, cfg)
    /\ loaded' = NotDone
    /\ UNCHANGED cacheEnv
    /\ UNCHANGED <<dlVars, consVars, depVars, updVars, arcVars, bunVars,
                   parVars, reqVars>>

\* a command saves a configuration
SaveAny == \E cfg \in Configs : Save(cfg)

\* the configuration is not in use
IdleConfig ==
    /\ settings = <<>>
    /\ cacheEnv = ""
    /\ loaded = NotDone
    /\ saved = NotDone

\* the program starts with some settings file and environment
InitConfig ==
    /\ settings \in SettingsFiles
    /\ cacheEnv \in EnvValues
    /\ loaded = NotDone
    /\ saved = NotDone

-----------------------------------------------------------------------------
(* Part 9: makeRequest and refreshAccessToken of src/api/helper.go, and    *)
(* loginCmd of src/unnamed/part_004.  The server accepts the access and    *)
(* refresh tokens it holds valid and issues numbered new ones.             *)

\* largest number of calls of makeRequest by one caller, and of logins
MaxCalls == 2
MaxLogins == 1

\* the goroutines that call makeRequest
Procs == {1, 2}

\* method, URL and body of a request
Requests == {"GET /api/v1/search", "POST /api/v1/packages {}"}

\* the tokens the server issues, in order
TokenNames == <<"1", "2", "3", "4", "5", "6", "7", "8">>
AccessOf(k) == "a" \o TokenNames[k]
RefreshOf(k) == "r" \o TokenNames[k]

\* the status the server gives to a request with this access token
StatusOf(token) == IF token \in srv.validAccess THEN 200 ELSE 401

\* a call that has not returned, and what a call returns: the error, or
\* the status of the response and whether its body was closed
NoResult == [err |-> "none", status |-> 0, closed |-> FALSE]
Response(status, closed) ==
    [err |-> NoErr, status |-> status, closed |-> closed]
Failure(e) == [err |-> e, status |-> 0, closed |-> FALSE]

\* a caller before its first call; cfg is the Config of makeRequest, rcfg
\* the copy that refreshAccessToken changes and saves, answer the answer
\* to its refresh request
Caller(quota) ==
    [pc |-> "idle", quota |-> quota, calls |-> 0, what |-> "",
     cfg |-> Config("", "", ""), sends |-> <<>>, status |-> 0,
     answer |-> "none", rcfg |-> Config("", "", ""),
     refreshed |-> "none", res |-> NoResult]

\* what the steps of makeRequest leave alone
requestFrame ==
    UNCHANGED <<dlVars, consVars, depVars, updVars, arcVars, bunVars,
                parVars, cacheEnv, loaded, saved>>

\* the call returns res
Return(p, res) ==
    req' = [req EXCEPT ![p].pc = "returned", ![p].res = res]

\* makeRequest(method, url, body, contentType) up to config.Load (lines
\* 25-39)
Call(p, what) ==
    /\ req[p].pc \in {"idle", "returned"}
    /\ req[p].calls < req[p].quota
    /\ LET started == [req[p] EXCEPT !.calls = @ + 1, !.what = what,
                                     !.sends = <<>>, !.status = 0,
                                     !.answer = "none",
                                     !.rcfg = Config("", "", ""),
                                     !.refreshed = "none", !.res = NoResult]
           l == LoadResult(settings, cacheEnv)
       IN  \/ req' = [req EXCEPT ![p] =
                         [started EXCEPT !.pc = "returned",
                                         !.res = Failure("open error")]]
           \/ req' = [req EXCEPT ![p] =
                         IF l.err # NoErr
                            THEN [started EXCEPT !.pc = "returned",
                                                 !.res = Failure(l.err)]
                            ELSE [started EXCEPT !.pc = "send",
                                                 !.cfg = l.cfg]]
    /\ UNCHANGED <<settings, refreshMu, srv>>
    /\ requestFrame

\* a command calls makeRequest
CallAny == \E p \in Procs, what \in Requests : Call(p, what)

\* the first doRequest and the test of its status (lines 41-48); on 401
\* with a refresh token the body is closed
Send(p) ==
    /\ req[p].pc = "send"
    /\ \/ Return(p, Failure("request error"))
       \/ LET st == StatusOf(req[p].cfg.AccessToken)
              sent == Append(req[p].sends,
                             [token |-> req[p].cfg.AccessToken,
                              what |-> req[p].what])
          IN  IF st = 401 /\ req[p].cfg.RefreshToken # ""
                 THEN req' = [req EXCEPT ![p].sends = sent,
                                         ![p].status = st,
                                         ![p].pc = "lock"]
                 ELSE req' = [req EXCEPT ![p].sends = sent,
                                         ![p].status = st,
                                         ![p].pc = "returned",
                                         ![p].res = Response(st, FALSE)]
    /\ UNCHANGED <<settings, refreshMu, srv>>
    /\ requestFrame

\* refreshMu.Lock() (line 92)
Lock(p) ==
    /\ req[p].pc = "lock"
    /\ refreshMu = 0
    /\ refreshMu' = p
    /\ req' = [req EXCEPT ![p].pc = "refresh"]
    /\ UNCHANGED <<settings, srv>>
    /\ requestFrame

\* refreshAccessToken returns an error and releases the lock (line 93):
\* makeRequest returns the first response, whose body it closed (lines 48
\* and 60)
RefreshFailed(p, how) ==
    /\ req' = [req EXCEPT ![p].refreshed = how, ![p].pc = "returned",
                          ![p].res = Response(req[p].status, TRUE)]
    /\ refreshMu' = 0

\* the server answers a refresh request for a valid token with a new
\* access token, and a new refresh token when it rotates them
Issue(rotate, token) ==
    [srv EXCEPT !.issued = @ + 1,
                !.validAccess = @ \cup {AccessOf(srv.issued + 1)},
                !.validRefresh =
                   IF rotate
                      THEN (@ \ {token}) \cup {RefreshOf(srv.issued + 1)}
                      ELSE @,
                !.lastAccess = AccessOf(srv.issued + 1),
                !.lastRefresh =
                   IF rotate THEN RefreshOf(srv.issued + 1)
                   ELSE srv.lastRefresh]

\* refreshAccessToken(cfg) under the lock, from the POST to the call of
\* config.Save (lines 95-121): the request fails; or the status is not 200,
\* because the token is not valid or because the server fails, and the
\* refresh token of the copy is cleared; or the status is 200 and the
\* answer is decoded into the copy, or cannot be decoded
RefreshRequest(p) ==
    /\ req[p].pc = "refresh"
    /\ refreshMu = p
    /\ LET cfg == req[p].cfg
       IN  \/ /\ RefreshFailed(p, "error")
              /\ UNCHANGED <<settings, srv>>
           \/ /\ req' = [req EXCEPT
                            ![p].answer = "rejected",
                            ![p].rcfg = [cfg EXCEPT !.RefreshToken = ""],
                            ![p].pc = "truncate"]
              /\ UNCHANGED <<settings, srv, refreshMu>>
           \/ /\ cfg.RefreshToken \in srv.validRefresh
              /\ srv.issued < Len(TokenNames)
              /\ \E rotate \in BOOLEAN :
                    /\ srv' = Issue(rotate, cfg.RefreshToken)
                    /\ \/ /\ RefreshFailed(p, "error")
                          /\ UNCHANGED settings
                       \/ /\ req' = [req EXCEPT
                                ![p].answer = "ok",
                                ![p].rcfg =
                                   [cfg EXCEPT
                                       !.AccessToken =
                                          AccessOf(srv.issued + 1),
                                       !.RefreshToken =
                                          IF rotate
                                             THEN RefreshOf(srv.issued + 1)
                                             ELSE @],
                                ![p].pc = "truncate"]
                          /\ UNCHANGED <<settings, refreshMu>>
    /\ requestFrame

\* refreshAccessToken has called config.Save and returns: with the error
\* of the status after line 108, whatever Save returned, and with the
\* result of Save after line 121, which line 49 of makeRequest tests
SaveReturn(p, err) ==
    IF req[p].answer = "rejected" THEN RefreshFailed(p, "rejected")
    ELSE IF err # NoErr THEN RefreshFailed(p, "error")
    ELSE /\ req' = [req EXCEPT ![p].refreshed = "ok", ![p].pc = "reload"]
         /\ refreshMu' = 0

\* config.Save(cfg) of refreshAccessToken, its os.OpenFile with O_TRUNC
\* (part_001 lines 83-89): the file is empty from here on
SaveTruncate(p) ==
    /\ req[p].pc = "truncate"
    /\ refreshMu = p
    /\ \/ /\ SaveReturn(p, "open error")
          /\ UNCHANGED settings
       \/ /\ settings' = <<>>
          /\ req' = [req EXCEPT ![p].pc = "encode"]
          /\ UNCHANGED refreshMu
    /\ UNCHANGED srv
    /\ requestFrame

\* config.Save(cfg) of refreshAccessToken, the encoding into the file
\* (part_001 lines 91-100), which may fail and leave the file empty
SaveEncode(p) ==
    /\ req[p].pc = "encode"
    /\ refreshMu = p
    /\ \/ /\ settings' = SaveResult(settings, req[p].rcfg)
          /\ SaveReturn(p, NoErr)
       \/ /\ SaveReturn(p, "write error")
          /\ UNCHANGED settings
    /\ UNCHANGED srv
    /\ requestFrame

\* the second config.Load (lines 51-54)
Reload(p) ==
    /\ req[p].pc = "reload"
    /\ LET l == LoadResult(settings, cacheEnv)
       IN  \/ Return(p, Failure("open error"))
           \/ IF l.err # NoErr THEN Return(p, Failure(l.err))
              ELSE req' = [req EXCEPT ![p].cfg = l.cfg, ![p].pc = "resend"]
    /\ UNCHANGED <<settings, refreshMu, srv>>
    /\ requestFrame

\* the second doRequest, whose result is returned as it is (line 56)
Resend(p) ==
    /\ req[p].pc = "resend"
    /\ \/ Return(p, Failure("request error"))
       \/ LET st == StatusOf(req[p].cfg.AccessToken)
          IN  req' = [req EXCEPT
                         ![p].sends = Append(@,
                                         [token |-> req[p].cfg.AccessToken,
                                          what |-> req[p].what]),
                         ![p].pc = "returned",
                         ![p].res = Response(st, FALSE)]
    /\ UNCHANGED <<settings, refreshMu, srv>>
    /\ requestFrame

\* the steps of makeRequest after its start
Request ==
    \E p \in Procs :
       \/ Send(p)
       \/ Lock(p)
       \/ RefreshRequest(p)
       \/ SaveTruncate(p)
       \/ SaveEncode(p)
       \/ Reload(p)
       \/ Resend(p)

\* loginCmd after api.DeviceLogin has returned the tokens of the server
\* (part_004 lines 44-60).  DeviceLogin sends its requests with makeRequest
\* (src/api/auth.go lines 21 and 72), which returns the error of
\* config.Load before anything is sent (helper.go lines 36-39): tokens are
\* issued only where Load succeeds.  Then Load (line 50, where the file may
\* fail to open), the two tokens, and Save, whose result is not looked at:
\* the file holds the tokens, or is empty when Encode failed after the
\* truncation, or is as it was when it could not be opened
Login ==
    /\ \A p \in Procs : req[p].pc \in {"idle", "returned"}
    /\ srv.logins < MaxLogins
    /\ srv.issued < Len(TokenNames)
    /\ LoadResult(settings, cacheEnv).err = NoErr
    /\ srv' = [Issue(TRUE, "") EXCEPT !.logins = @ + 1]
    /\ LET l == LoadResult(settings, cacheEnv)
       IN  \/ settings' = SaveResult(settings,
                             [l.cfg EXCEPT
                                 !.AccessToken = AccessOf(srv.issued + 1),
                                 !.RefreshToken = RefreshOf(srv.issued + 1)])
           \/ settings' = <<>>
           \/ UNCHANGED settings
    /\ UNCHANGED <<req, refreshMu>>
    /\ requestFrame

\* no request is made
IdleRequest ==
    /\ req = [p \in Procs |-> Caller(0)]
    /\ refreshMu = 0
    /\ srv = [validAccess |-> {}, validRefresh |-> {}, issued |-> 0,
              logins |-> 0, lastAccess |-> "", lastRefresh |-> ""]

\* the cache paths the settings file may hold before a request is made
SavedPaths == {"", "/saved"}

\* the user has logged in before: the settings file holds the tokens a0 and
\* r0, each of which the server may still accept
InitTokens ==
    /\ \E r \in {"", "r0"}, path \in SavedPaths :
          settings = <<Encode(Config("a0", r, path))>>
    /\ cacheEnv \in {"", "/env", "/missing"}
    /\ loaded = NotDone
    /\ saved = NotDone
    /\ refreshMu = 0
    /\ \E va \in SUBSET {"a0"}, vr \in SUBSET {"r0"} :
          srv = [validAccess |-> va, validRefresh |-> vr, issued |-> 0,
                 logins |-> 0, lastAccess |-> "a0", lastRefresh |-> "r0"]

\* the variables of parts 8 and later are at rest
IdleLate == IdleConfig /\ IdleRequest

\* the variables of parts 5 and later are at rest
IdleAux == IdleArchive /\ IdleBundler /\ IdleParser /\ IdleLate

-----------------------------------------------------------------------------
(* Specifications *)

\* no download is in progress
IdleDownload ==
    /\ size = 0
    /\ hasOnFinished = FALSE
    /\ pc = "off"
    /\ total = Uint64(0)
    /\ finished = 0
    /\ reportChan = <<>>
    /\ closes = 0
    /\ Err = NoErr
    /\ body = 0
    /\ chunk = 0
    /\ n = 0
    /\ calls = 0
    /\ extracted = FALSE
    /\ exitPath = "none"
    /\ cpc = "idle"
    /\ lastRatio = NoRatio
    /\ seenErr = "unread"

\* no get or pull command is running
IdleDeps ==
    /\ visited = {}
    /\ cache = {}
    /\ stack = <<>>
    /\ roots = <<>>
    /\ rootNoDeps = FALSE
    /\ depsAnswer = [r \in Refs |-> Unasked]
    /\ downloads = [r \in Refs |-> 0]
    /\ failed = {}
    /\ queries = [r \in Refs |-> 0]
    /\ cacheHits = {}
    /\ result = "idle"
    /\ called = <<>>
    /\ count = 0

\* no Updater is in use
IdleUpdater ==
    /\ goos = "linux"
    /\ goarch = <<"arm">>
    /\ running = EmptyVer
    /\ latestRelease = NoRelease
    /\ releaseQueries = 0
    /\ lastCall = NoCall
    /\ matched = 0
    /\ staging = "none"
    /\ exeFile = "old"
    /\ oldFile = "none"
    /\ ipc = "idle"

Init == InitDownload /\ IdleDeps /\ IdleUpdater /\ IdleAux

\* the steps of the background goroutine of Download
Producer ==
    \/ Get
    \/ OpenFile
    \/ WriteAdd
    \/ WriteSend
    \/ FileWrite
    \/ CopyError
    \/ CopyEOF
    \/ Uncompress
    \/ OnFinished
    \/ Done

\* the steps of updateCmd once it holds the handle
Consumer ==
    \/ Receive
    \/ LoopExit

Next ==
    \/ Download
    \/ Producer
    \/ Consumer

\* one Download of part_000 and its consumer
Spec == Init /\ [][Next]_vars

\* the same, with the goroutine and the consumer scheduled fairly
SpecFair == Spec /\ WF_vars(Producer) /\ WF_vars(Consumer)

\* one Download of src/version/download.go
SpecLegacy == Init /\ [][NextLegacy]_vars

\* one get or pull command
InitCommand == InitDeps /\ IdleDownload /\ IdleUpdater /\ IdleAux
SpecDeps == InitCommand /\ [][NextDeps]_vars

\* the calls of one Updater, in either revision
InitUpdate == InitUpdater /\ IdleDownload /\ IdleDeps /\ IdleAux
SpecUpdater == InitUpdate /\ [][NextUpdater]_vars
SpecUpdaterLegacy == InitUpdate /\ [][NextUpdaterLegacy]_vars

\* the update of updateCmd: Update, the download and the installation
InitInstall == InitChecked /\ IdleDownload /\ IdleDeps /\ IdleAux
NextInstall ==
    \/ Update
    \/ Downloading
    \/ Installing
    \/ Consumer
SpecInstall == InitInstall /\ [][NextInstall]_vars

\* the update command is about to download the asset named arcName into
\* the existing directory destDir
InitAsset ==
    /\ InitDownload
    /\ size = 1
    /\ arcName \in ArchiveNames
    /\ arcEntries = <<>>
    /\ arcNext = 1
    /\ fsDirs = Prefixes(DestDir)
    /\ fsFiles = {}
    /\ xpc = "idle"
    /\ xerr = NoErr

\* the get command is about to extract a package into the cache, where
\* the directory of the package does not exist yet
InitPackage ==
    /\ IdleDownload
    /\ arcName = <<"tpix-", "tar.gz">>
    /\ arcEntries = <<>>
    /\ arcNext = 1
    /\ fsDirs = {<<>>}
    /\ fsFiles = {}
    /\ xpc = "idle"
    /\ xerr = NoErr

\* the extraction of a downloaded asset, or of a downloaded package
InitExtract ==
    (InitAsset \/ InitPackage) /\ IdleDeps /\ IdleUpdater /\ IdleBundler
    /\ IdleParser /\ IdleLate
NextExtract ==
    \/ Download
    \/ Get
    \/ OpenFile
    \/ WriteAdd
    \/ WriteSend
    \/ FileWrite
    \/ CopyError
    \/ CopyEOF
    \/ UncompressToDir
    \/ UncompressTarFile
    \/ UnzipFile
    \/ OnFinished
    \/ Done
    \/ Consumer
    \/ downloadPackage
    \/ ExtractTarGzEntry

SpecExtract == InitExtract /\ [][NextExtract]_vars

\* the bundle command, and the extraction of the archive it wrote
InitBundle ==
    InitBundler /\ InitPackage /\ IdleDeps /\ IdleUpdater /\ IdleParser
    /\ IdleLate
NextBundle ==
    \/ Bundle
    \/ Walk
    \/ ExtractBundle
    \/ ExtractTarGzEntry

SpecBundle == InitBundle /\ [][NextBundle]_vars

\* one call of ExtractFromSource
InitImports ==
    InitParser /\ IdleDownload /\ IdleDeps /\ IdleUpdater /\ IdleArchive
    /\ IdleBundler /\ IdleLate
NextImports == ExtractFromSource

SpecImports == InitImports /\ [][NextImports]_vars

\* Load and Save on one settings file
InitSettings ==
    InitConfig /\ IdleDownload /\ IdleDeps /\ IdleUpdater /\ IdleArchive
    /\ IdleBundler /\ IdleParser /\ IdleRequest
NextSettings ==
    \/ Load
    \/ SaveAny

SpecSettings == InitSettings /\ [][NextSettings]_vars

\* one caller of makeRequest at a time, and the login command between calls
InitRequest ==
    /\ InitTokens
    /\ req = [p \in Procs |-> Caller(IF p = 1 THEN MaxCalls ELSE 0)]
    /\ IdleDownload /\ IdleDeps /\ IdleUpdater /\ IdleArchive
    /\ IdleBundler /\ IdleParser
NextRequest ==
    \/ CallAny
    \/ Request
    \/ Login

SpecRequest == InitRequest /\ [][NextRequest]_vars

\* two goroutines that call makeRequest once each
InitConcurrent ==
    /\ InitTokens
    /\ req = [p \in Procs |-> Caller(1)]
    /\ IdleDownload /\ IdleDeps /\ IdleUpdater /\ IdleArchive
    /\ IdleBundler /\ IdleParser
NextConcurrent ==
    \/ CallAny
    \/ Request

SpecConcurrent == InitConcurrent /\ [][NextConcurrent]_vars

-----------------------------------------------------------------------------
(* Claims about Download and its progress channel *)

Last(sq) == sq[Len(sq)]

\* C1: on every exit path of the background goroutine the progress channel
\* has been closed exactly once when the goroutine is done, it is never
\* closed twice, and no ratio is sent on it after the close.
C1_ClosedExactlyOnce ==
    /\ [](closes <= 1)
    /\ [](pc = "done" => closes = 1 /\ exitPath \in ExitPaths)
    /\ [][Len(reportChan') > Len(reportChan) => closes = 0 /\ closes' = 0]_vars

\* the goroutine is done after a failed extraction, having sent ratios
C1_Witness ==
    /\ pc = "done"
    /\ exitPath = "extract"
    /\ closes = 1
    /\ finished > 0

\* C2: a consumer that drains the channel until it is closed always leaves
\* its loop: once Download has returned the handle, the channel is
\* eventually closed and the range loop ends.
C2_DrainTerminates == (cpc = "range") ~> (cpc = "exited" /\ closes = 1)

\* the consumer has left its loop after a transfer that ended in an error
\* of the body read (a lost connection or the client timeout)
C2_Witness ==
    /\ cpc = "exited"
    /\ exitPath = "copy"
    /\ finished > 0

\* the producer is inside Write at the send, and the buffer is full
Blocked == pc = "write" /\ Len(reportChan) = ChanCap

\* C3: while the channel is full the producer stays in Write and transfers
\* nothing further (no byte is read, counted or written to the file), and
\* with a consumer that keeps draining the channel is still closed
\* eventually.
C3_Backpressure ==
    /\ [][Blocked => (pc' = "write" /\ finished' = finished /\ n' = n
                      /\ body' = body /\ closes' = closes)]_vars
    /\ (Blocked ~> closes = 1)

\* the producer is blocked with bytes of the body still unread
C3_Witness == Blocked /\ body > 0

\* C6: after a transfer of an asset of announced size > 0 whose written
\* bytes equal that size, the last ratio sent before the close is 1.0: it
\* is the last value still buffered, or else the last value the consumer
\* received.
C6_FinalRatioIsOne ==
    (closes = 1 /\ size > 0 /\ n = size /\ exitPath \in {"success", "extract"})
        => IF reportChan # <<>> THEN IsOne(Last(reportChan))
                                ELSE IsOne(lastRatio)

\* the consumer has drained a successful download of several chunks
C6_Witness ==
    /\ cpc = "exited"
    /\ exitPath = "success"
    /\ size > MaxChunk
    /\ n = size
    /\ IsOne(lastRatio)

\* C7 as claimed: with an announced size <= 0 no ratio is pushed to the
\* channel.
C7_NoRatioWithoutSize ==
    size <= 0 => (reportChan = <<>> /\ lastRatio = NoRatio)

\* the download is done, its extraction included
Succeeded == extracted /\ n = size

\* C8: Err changes only in steps of the background goroutine taken before
\* the close; after the consumer has seen the close Err never changes, the
\* consumer has read its final value, and it is nil exactly when the
\* request, the transfer with matching size and the extraction succeeded.
C8_ErrSettledAtClose ==
    /\ [][Err' # Err => (closes = 0 /\ closes' = 0 /\ consVars' = consVars)]_vars
    /\ [][cpc = "exited" => Err' = Err]_vars
    /\ [](cpc = "exited" => seenErr = Err /\ (Err = NoErr <=> Succeeded))

\* the consumer reads a non-nil Err after a read of the body failed
C8_Witness ==
    /\ cpc = "exited"
    /\ exitPath = "copy"
    /\ seenErr = "Download error"

-----------------------------------------------------------------------------
(* Claims about the completion callback; src/version/download.go decides   *)
(* them.                                                                   *)

\* C4 as claimed: a download whose written bytes differ from the announced
\* size ends with an error, without extraction and without a call of the
\* completion callback.
C4_MismatchSkipsCallback ==
    (pc = "done" /\ exitPath = "size")
        => (n # size /\ Err # NoErr /\ ~extracted /\ calls = 0)

\* C5 as claimed: the completion callback is called at most once, only
\* after the transfer with matching size and the extraction succeeded, and
\* never on an error path.
C5_CallbackOnlyAfterExtraction ==
    /\ calls <= 1
    /\ calls = 1 => (Succeeded /\ Err = NoErr)
    /\ (pc = "done" /\ exitPath \in {"request", "file", "copy", "extract"})
          => calls = 0

-----------------------------------------------------------------------------
(* Claims about fetchWithDeps *)

\* A variant of the resolution: the work one command can still do.  Every
\* unvisited key may cost a whole call, every frame what is left of its
\* call, every root its call.
FrameWork(f) ==
    CASE f.at = "enter" -> 1
      [] f.at = "fetch" -> 3 + 2 * MaxDeps
      [] f.at = "deps"  -> 2 + 2 * MaxDeps
      [] f.at = "loop"  -> 1 + 2 * Len(f.todo)

RECURSIVE StackWork(_)
StackWork(st) ==
    IF st = <<>> THEN 0 ELSE FrameWork(Head(st)) + StackWork(Tail(st))

Work ==
    (3 + 2 * MaxDeps) * (Cardinality(Refs) - Cardinality(visited))
        + StackWork(stack) + 2 * Len(roots)
        + (IF result = "running" THEN 1 ELSE 0)

\* a call arrives at a key that is already in visited
SecondArrival ==
    stack # <<>> /\ Top.at = "enter" /\ Key(Top.ref) \in visited

\* C9: for every dependency graph, cyclic ones included, the resolution
\* terminates (every step lowers a natural-valued variant and the command
\* is never stuck while it runs); within the one visited set of a get or
\* pull run each ref is downloaded at most once and queried at most once,
\* and a second arrival at a key returns without any work.
C9_EachRefOnce ==
    /\ [](\A r \in Refs : downloads[r] <= 1 /\ queries[r] <= 1)
    /\ [](Work >= 0 /\ (result = "running" => ENABLED NextDeps))
    /\ [][Work' < Work]_vars
    /\ [][SecondArrival => (stack' = Pop /\ UNCHANGED <<visited, cache,
              downloads, queries, depsAnswer, cacheHits, result>>)]_vars

\* a pull has resolved a mutual cycle between two refs that were both
\* roots
C9_Witness ==
    /\ result = "ok"
    /\ Cardinality(visited) = 2
    /\ \E a, b \in Refs :
          /\ a # b
          /\ depsAnswer[a] = [status |-> "ok", deps |-> <<b>>]
          /\ depsAnswer[b] = [status |-> "ok", deps |-> <<a, b>>]
          /\ downloads[a] = 1
          /\ downloads[b] = 1


\* C10: a ref found in the cache is not downloaded, and unless the root is
\* resolved with --no-deps its dependencies are still queried and resolved:
\* after a successful run every dependency named for it is visited and in
\* the cache, downloaded by this run if it was not cached.
C10_CacheHitStillWalksDeps ==
    /\ \A r \in cacheHits : downloads[r] = 0
    /\ (result = "ok" /\ ~rootNoDeps) =>
          \A r \in cacheHits :
             /\ queries[r] = 1
             /\ \A d \in Range(depsAnswer[r].deps) :
                   /\ Key(d) \in visited
                   /\ d \in cache
                   /\ d \in cacheHits \/ downloads[d] = 1

\* a cached package named a dependency that was missing, and the run
\* downloaded it
C10_Witness ==
    /\ result = "ok"
    /\ \E r \in cacheHits : \E d \in Range(depsAnswer[r].deps) :
          d \notin cacheHits /\ downloads[d] = 1

\* the step is a FetchDependencies call for r that returned an error
QueryFailed(r) ==
    /\ queries'[r] = queries[r] + 1
    /\ depsAnswer'[r].status = "error"

\* C11: a failed dependency query is never reported as an error: the call
\* returns nil to its caller as for a ref without dependencies, nothing but
\* the query is recorded, an error of the command always comes from a
\* download, and after a successful run every dependency of every answered
\* ref is visited, the siblings of a ref whose query failed included.
C11_QueryFailureIsLeaf ==
    /\ [][\A r \in Refs : QueryFailed(r) =>
             (stack' = Pop /\ UNCHANGED <<result, roots, visited, cache,
                                          downloads, cacheHits>>)]_vars
    /\ [][(result' = "error" /\ result # "error") =>
             \E r \in Refs : downloads'[r] = downloads[r] + 1]_vars
    /\ [](result = "ok" =>
             \A r \in Refs : depsAnswer[r].status = "ok" =>
                \A d \in Range(depsAnswer[r].deps) : Key(d) \in visited)

\* a ref named two dependencies, the query of the first one failed, and
\* the second one was resolved and queried all the same
C11_Witness ==
    /\ result = "ok"
    /\ \E a, b, c \in Refs :
          /\ a # b /\ a # c /\ b # c
          /\ depsAnswer[a] = [status |-> "ok", deps |-> <<b, c>>]
          /\ queries[b] = 1
          /\ depsAnswer[b].status = "error"
          /\ Key(c) \in visited
          /\ queries[c] = 1

\* C12: --no-deps acts on the root only. Every recursive call runs with
\* noDeps = false and the root runs with the flag of the command; with the
\* flag set no dependency query is made and nothing but the root is
\* downloaded or marked visited; without it the dependencies of every ref
\* reached are queried.
C12_NoDepsOnlyAtRoot ==
    /\ \A i \in DOMAIN stack : stack[i].noDeps = (i = 1 /\ rootNoDeps)
    /\ rootNoDeps =>
          /\ Len(called) <= 1
          /\ \A r \in Refs : queries[r] = 0
          /\ visited \subseteq {Key(r) : r \in Range(called)}
          /\ \A r \in Refs : downloads[r] > 0 => r \in Range(called)
    /\ (result = "ok" /\ ~rootNoDeps) =>
          \A r \in Refs : Key(r) \in visited => queries[r] = 1

\* get --no-deps has downloaded its root and finished
C12_Witness ==
    /\ rootNoDeps
    /\ result = "ok"
    /\ \E r \in Refs : downloads[r] = 1 /\ visited = {Key(r)}

\* C13: a failed download aborts the resolution. A download that returns
\* an error, in the transfer or in the extraction, and any download that
\* leaves no directory for its ref, makes the command return the error at
\* once with every frame unwound; after the error no step is taken, so
\* no further download or query happens and the remaining roots are not
\* called; no step ever removes a directory from the cache; and the
\* command returns an error only for a download that failed.
C13_DownloadFailureAborts ==
    /\ [][\A r \in Refs :
             (downloads'[r] = downloads[r] + 1
              /\ (r \in failed' \/ r \notin cache')) =>
                (result' = "error" /\ stack' = <<>> /\ roots' = roots)]_vars
    /\ [][result # "error"]_vars
    /\ [][cache \subseteq cache']_vars
    /\ [](failed # {} => result = "error")
    /\ [](result = "error" =>
             \E r \in Refs : downloads[r] = 1 /\ failed = {r})

\* a pull failed on a download whose extraction failed, after an earlier
\* download had succeeded and with a root still waiting
C13_Witness ==
    /\ result = "error"
    /\ roots # <<>>
    /\ \E a, b \in Refs :
          /\ a # b
          /\ downloads[a] = 1 /\ a \in cache /\ a \notin failed
          /\ downloads[b] = 1 /\ b \in cache /\ b \in failed

\* the refs named by the successful queries of the refs in S
DirectDeps(S) ==
    UNION {Range(depsAnswer[r].deps) :
              r \in {x \in S : depsAnswer[x].status = "ok"}}

RECURSIVE Closure(_)
\* the refs reachable from S through successful queries
Closure(S) ==
    IF DirectDeps(S) \subseteq S THEN S ELSE Closure(S \cup DirectDeps(S))

\* C14: on success the count reported is the size of visited, and visited
\* is exactly the set of refs reachable from the roots through the
\* dependency queries that succeeded, each ref counted once.
C14_CountIsReachableSet ==
    result = "ok" =>
       /\ count = Cardinality(visited)
       /\ visited = {Key(r) : r \in Closure(Range(called))}
       /\ count = Cardinality(Closure(Range(called)))

\* one root reached all three refs, one of them from the cache
C14_Witness ==
    /\ result = "ok"
    /\ Len(called) = 1
    /\ count = 3
    /\ cacheHits # {}

-----------------------------------------------------------------------------
(* Claims about the Updater *)

\* C15: Update() on an Updater without a memoized release returns the
\* precondition error, makes no staging directory and starts no download.
C15_UpdateNeedsCheck ==
    (lastCall.op = "Update" /\ latestRelease = NoRelease) =>
       /\ lastCall.err = Precondition
       /\ staging = "none"
       /\ pc = "off"

\* C16 as stated: once a first Check() or Latest() has been made, which
\* always issues a query, no later call issues a release query.
C16_FetchedOnce ==
    [][releaseQueries >= 1 => releaseQueries' = releaseQueries]_vars

\* C16, amended: once a release is memoized no call issues a query or
\* changes the memoized release; Latest() reports the memoized release and
\* Check() the comparison of its version with the running one; a call never
\* issues more than one query.
C16_MemoizedAfterSuccess ==
    /\ [][latestRelease # NoRelease =>
             (latestRelease' = latestRelease /\
              releaseQueries' = releaseQueries)]_vars
    /\ [][releaseQueries' \in {releaseQueries, releaseQueries + 1}]_vars
    /\ []((lastCall.op = "Latest" /\ lastCall.err = NoErr) =>
             (latestRelease # NoRelease /\ lastCall.release = latestRelease))
    /\ []((lastCall.op = "Check" /\ latestRelease # NoRelease) =>
             lastCall.newer =
                compareVersion(latestRelease.Version, running).newer)

\* the first query failed, the second one was memoized, Update() started
\* the download, and a later Latest() reported the memoized release
C16_Witness ==
    /\ pc = "get"
    /\ releaseQueries = 2
    /\ lastCall.op = "Latest"
    /\ lastCall.release = latestRelease

\* C17: a release is selected, and memoized, only when exactly one of its
\* asset names fits the pattern of the platform.
C17_ExactlyOneMatch ==
    latestRelease # NoRelease => matched = 1

\* a version string that normVersion accepts
Usable(ver) == ver.kind = "num"

\* a is strictly greater than b in semantic-version order
Greater(a, b) ==
    \E i \in 1 .. 3 :
       /\ Component(a, i) > Component(b, i)
       /\ \A j \in 1 .. (i - 1) : Component(a, j) = Component(b, j)

\* C18: Check() reports an update exactly when the version of the release
\* is strictly greater than the running one; if either string is empty or
\* no semantic version it returns an error and reports no update.
C18_NewerIffStrictlyGreater ==
    (lastCall.op = "Check" /\ latestRelease # NoRelease) =>
       IF Usable(latestRelease.Version) /\ Usable(running)
          THEN /\ lastCall.err = NoErr
               /\ lastCall.newer = Greater(latestRelease.Version, running)
          ELSE /\ lastCall.err # NoErr
               /\ ~lastCall.newer

\* C19: once the goroutine of the download has finished, whatever its
\* outcome, the staging directory that Update() made is gone.
C19_StagingRemoved ==
    pc = "done" => staging # "exists"

\* C20: the path of the running executable always holds the complete old
\* binary or the complete new one.
C20_AtomicReplace ==
    exeFile \in {"old", "new"}

\* C21: on windows the installation removes a stale <exe>.old, then renames
\* the running executable to <exe>.old, then moves the staged binary to the
\* path of the executable, in this order.  When the rename fails nothing is
\* installed and the original stays in place; whenever the path of the
\* executable no longer holds the original, <exe>.old holds it.
C21_WindowsKeepsBackup ==
    /\ [](goos = "windows" =>
             /\ exeFile # "old" => oldFile = "old"
             /\ ipc \in {"remove", "rename", "read", "write"} =>
                   oldFile = "old")
    /\ [][(goos = "windows" /\ oldFile' # oldFile) =>
             \/ ipc = "rmold" /\ ipc' = "mvold" /\ oldFile' = "none"
             \/ ipc = "mvold" /\ ipc' = "remove" /\ oldFile' = "old"]_vars
    /\ [][(goos = "windows" /\ ipc = "mvold" /\ ipc' = "cleanup") =>
             (exeFile' = "old" /\ oldFile' = oldFile)]_vars
    /\ [][(goos = "windows" /\ exeFile' \in {"new", "partial"}
                            /\ exeFile' # exeFile) =>
             (ipc \in {"rename", "write"} /\ oldFile = "old")]_vars
    /\ []((goos = "windows" /\ ipc \in {"cleanup", "done"}
                            /\ oldFile # "old") => exeFile = "old")

\* on windows a stale <exe>.old was there, the running executable was
\* renamed, and the final move failed: <exe>.old holds the original
C21_Witness ==
    /\ goos = "windows"
    /\ ipc = "done"
    /\ exeFile = "none"
    /\ oldFile = "old"

\* the name ends in neither ".tar.gz" nor ".zip"
UnknownFormat(name) ==
    /\ ~HasSuffix(name, <<".", "tar.gz">>)
    /\ ~HasSuffix(name, <<".", "zip">>)

\* the goroutine of Download is past the call of uncompressToDir
Uncompressed == pc = "callback" \/ exitPath \in {"extract", "success"}

\* C22: the suffix of the name of the downloaded file alone chooses the
\* extractor: ".tar.gz" the tar.gz extraction, ".zip" the zip extraction;
\* with any other name the extraction is an error: nothing is extracted,
\* the handle carries the error and the callback is not invoked.
C22_FormatBySuffix ==
    pc # "off" =>
       /\ xpc = "tar" => HasSuffix(arcName, <<".", "tar.gz">>)
       /\ xpc = "zip" => HasSuffix(arcName, <<".", "zip">>)
       /\ xpc = "unknown" => UnknownFormat(arcName)
       /\ Uncompressed => xpc \in {"tar", "zip", "unknown"}
       /\ (Uncompressed /\ UnknownFormat(arcName)) =>
             /\ pc \in {"return", "done"}
             /\ Err = "Unknown release format"
             /\ exitPath = "extract"
             /\ ~extracted
             /\ fsDirs = Prefixes(DestDir)
             /\ fsFiles = {}
             /\ calls = 0

\* a file named tpix-cli-windows-arm.exe was downloaded in full and the
\* goroutine has ended with the format error, the callback not called
C22_Witness ==
    /\ pc = "done"
    /\ xpc = "unknown"
    /\ arcName = NameOf("windows", <<"arm">>, <<>>, "exe")
    /\ Err = "Unknown release format"
    /\ hasOnFinished
    /\ calls = 0
    /\ fsFiles = {}

\* C23: a successful extraction has written every regular file of the
\* archive at destDir/p, whatever the order of the entries, and no
\* extraction makes a file or a directory outside destDir.
C23_ExtractStaysInDest ==
    /\ \A f \in fsFiles : Under(DestDir, f.path)
    /\ \A d \in fsDirs : d \in Prefixes(DestDir) \/ Under(DestDir, d)
    /\ (extracted \/ (xpc = "returned" /\ xerr = NoErr)) =>
          \A i \in 1 .. Len(arcEntries) :
             arcEntries[i].type = "reg" =>
                IsFile(fsFiles, DestDir \o arcEntries[i].name)

\* the archive holds an entry for the path, or for something beneath it
InArchive(path) ==
    \E i \in 1 .. Len(bundle) : Under(Split(path), bundle[i].name)

\* C24: CreatePackage does not descend into a directory that the exclusion
\* rules match: the archive has no entry for the directory and none for
\* anything beneath it, as with rule ".git" and the entries ".git" and
\* ".git/config".
C24_ExcludedDirNotDescended ==
    \A d \in srcTree :
       (d.type = "dir" /\ shouldExclude(d.path, rules)) =>
          /\ ~InArchive(d.path)
          /\ \A i \in 1 .. Len(evaluated) : ~Below(d.path, evaluated[i])

\* the tree with .git/config was bundled under the rule ".git"
C24_Witness ==
    /\ bpc = "returned"
    /\ berr = NoErr
    /\ rules = <<".git">>
    /\ Node(".git/config", "reg", "c") \in srcTree
    /\ Len(bundle) >= 3

\* C25: a rule that ends in "/" excludes the directory it names and all
\* beneath it: with "node_modules/" the archive has neither the entry
\* "node_modules" nor an entry that starts with "node_modules/".
C25_DirRuleExcludesDir ==
    \A i \in 1 .. Len(rules) :
       HasSuffix(rules[i], "/") => ~InArchive(TrimSuffix(rules[i], "/"))

\* the four kinds of match of a rule, the directory-prefix kind taking in
\* the directory itself
RuleMatches(rule, path) ==
    \/ path = rule
    \/ /\ HasSuffix(rule, "/")
       /\ \/ path = TrimSuffix(rule, "/")
          \/ HasPrefix(path, rule)
    \/ /\ HasSuffix(rule, "*")
       /\ HasPrefix(path, TrimSuffix(rule, "*"))
    \/ filepathMatch(rule, path)

\* how often x occurs in the sequence sq
Occurrences(sq, x) == Cardinality({i \in 1 .. Len(sq) : sq[i] = x})

\* C26: an entry is excluded exactly when a rule of the caller's rules
\* followed by the manifest's matches it by equality, directory prefix,
\* trailing wildcard or glob, whatever the order and number of the rules
\* that match; each entry is evaluated once and is in the archive not at
\* all when excluded and once otherwise.
C26_ExcludedIffSomeRuleMatches ==
    (bpc = "returned" /\ berr = NoErr) =>
       /\ \E ex \in RuleLists : rules = ex \o manifest.Exclude
       /\ \A nd \in srcTree :
             /\ Occurrences(evaluated, nd.path) = 1
             /\ Occurrences(bundle, Header(nd)) =
                   IF \E i \in 1 .. Len(rules) : RuleMatches(rules[i], nd.path)
                      THEN 0 ELSE 1

\* a rule matches the path or a directory above it
Excluded(path) ==
    \E i \in 1 .. Len(rules) : \E k \in 1 .. Len(path) :
       /\ k = Len(path) \/ SubSeq(path, k + 1, k + 1) = "/"
       /\ RuleMatches(rules[i], SubSeq(path, 1, k))

\* the extraction of the archive of CreatePackage has returned nil
RoundTripDone ==
    bpc = "returned" /\ berr = NoErr /\ xpc = "returned" /\ xerr = NoErr

\* C27: the extraction of the archive that CreatePackage wrote gives every
\* regular file that was not excluded at its relative path with its
\* content, and no file at an excluded path; it fails on no archive that
\* was read in full.
C27_RoundTrip ==
    /\ xerr \in {NoErr, "gzip: invalid header", "unexpected EOF"}
    /\ RoundTripDone =>
          \A nd \in srcTree :
             nd.type = "reg" =>
                IF Excluded(nd.path)
                   THEN ~IsFile(fsFiles, DestDir \o Split(nd.path))
                   ELSE [path |-> DestDir \o Split(nd.path),
                         data |-> nd.data] \in fsFiles

\* the whole tree went through bundle and extraction under "*.txt": the
\* file below node_modules is back, exact.txt is not
C27_Witness ==
    /\ RoundTripDone
    /\ rules = <<"*.txt">>
    /\ [path |-> <<"dest", "node_modules", "m.txt">>, data |-> "m"]
          \in fsFiles
    /\ ~IsFile(fsFiles, <<"dest", "exact.txt">>)

\* typst.toml cannot be read or parsed, has no [package] section, or has
\* an empty name, version or entrypoint
BadManifest(m) ==
    \/ ~m.read
    \/ ~m.parsed
    \/ ~m.hasPackage
    \/ m.Name = ""
    \/ m.Version = ""
    \/ m.Entrypoint = ""

\* C28: CreatePackage returns an error on a typst.toml that is unreadable,
\* unparsable, without [package] or without name, version or entrypoint,
\* and then the output file is neither created nor truncated.
C28_ManifestCheckedFirst ==
    (bpc # "idle" /\ BadManifest(manifest)) =>
       /\ bpc = "returned"
       /\ berr # NoErr
       /\ outFile \in {"absent", "old"}
       /\ bundle = <<>>

\* CreatePackage has refused a manifest without entrypoint, and the
\* output file of an earlier run is still there
C28_Witness ==
    /\ bpc = "returned"
    /\ manifest.hasPackage
    /\ manifest.Entrypoint = ""
    /\ berr = "package entrypoint is required in typst.toml"
    /\ outFile = "old"

\* the dependencies the import syntax can give: a namespace without "/",
\* a name without ":", a version without a double quote, none empty
Triples ==
    {Ref(ns, nm, v) : ns \in {"p", "pa", "p:a"}, nm \in {"a", "ab", "b", "a/b"},
                      v \in {"1", "b:1", "1/2"}}

\* C29: the key of a package is "@namespace/name:version", the same on
\* every call, and no two different dependencies have the same key, so
\* that seen holds one key for each dependency returned.
C29_KeyInjective ==
    /\ Key(Ref("preview", "cetz", "0.3.0")) = "@preview/cetz:0.3.0"
    /\ \A a, b \in Triples \cup Refs \cup Range(deps) :
          Key(a) = Key(b) => a = b
    /\ seen = {Key(deps[i]) : i \in 1 .. Len(deps)}
    /\ Cardinality(seen) = Len(deps)

\* the imports of @p/ab:1 and of @pa/b:1 were both returned
C29_Witness ==
    /\ ppc = "returned"
    /\ deps = <<Ref("p", "ab", "1"), Ref("pa", "b", "1")>>
    /\ Cardinality(seen) = 2

RECURSIVE Uncomment(_, _, _)
\* the text of a line outside comments, read from the left: "//" ends
\* the line, "/*" opens a comment that "*/" closes and that leaves a
\* space; the result says whether a comment is open at the end
Uncomment(done, s, inBlock) ==
    IF s = "" THEN [text |-> done, inBlock |-> inBlock]
    ELSE IF inBlock
       THEN IF At(s, 1, "*/")
               THEN Uncomment(done \o " ", SliceFrom(s, 2), FALSE)
               ELSE Uncomment(done, Tail(s), TRUE)
    ELSE IF At(s, 1, "//") THEN [text |-> done, inBlock |-> FALSE]
    ELSE IF At(s, 1, "/*") THEN Uncomment(done, SliceFrom(s, 2), TRUE)
    ELSE Uncomment(done \o Head(s), Tail(s), FALSE)

RECURSIVE AddDistinct(_, _)
\* found, with those of new that it does not hold yet
AddDistinct(found, new) ==
    IF new = <<>> THEN found
    ELSE IF Head(new) \in Range(found) THEN AddDistinct(found, Tail(new))
    ELSE AddDistinct(Append(found, Head(new)), Tail(new))

RECURSIVE ImportsOutsideComments(_, _, _, _)
\* the distinct imports outside comments of the lines from i on, each
\* once, in the order of their first occurrence
ImportsOutsideComments(lines, i, inBlock, found) ==
    IF i > Len(lines) THEN found
    ELSE LET u == Uncomment("", lines[i], inBlock)
             new == FindAllSubmatch(u.text)
         IN  ImportsOutsideComments(lines, i + 1, u.inBlock,
                                    AddDistinct(found, new))

\* C30: ExtractFromSource returns exactly the distinct imports outside
\* comments, each once, in the order of first occurrence: none from a
\* line comment or from a block comment on one or several lines, and
\* every import outside comments, also before a trailing comment and
\* after a closed block comment.
C30_ImportsOutsideComments ==
    ppc = "returned" =>
       deps = ImportsOutsideComments(content, 1, FALSE, <<>>)

\* the path that the object in the settings file gives, "" if none
SavedPath(file) ==
    IF file = <<>> \/ file = BadJson THEN ""
    ELSE LET at == {i \in 1 .. Len(file[1]) :
                       file[1][i][1] = "typstCachePkgPath"}
         IN  IF at = {} THEN ""
             ELSE file[1][CHOOSE i \in at : \A j \in at : j <= i][2]

\* C31: Load takes the cache path from TYPST_PACKAGE_CACHE_PATH when it
\* names an existing directory (its absolute path, whatever is saved),
\* returns an error when it names something else, and when it is unset
\* returns the saved path, or the default cache directory if the saved
\* path is empty or the settings file is empty.
C31_LoadPrecedence ==
    (loaded.done /\ loaded.err # "open error" /\ settings # BadJson) =>
       IF cacheEnv = ""
          THEN /\ loaded.err = NoErr
               /\ loaded.cfg.TypstCachePkgPath =
                     IF SavedPath(settings) = "" THEN DefaultCacheDir
                     ELSE SavedPath(settings)
       ELSE IF Stat(cacheEnv) = "dir"
          THEN /\ loaded.err = NoErr
               /\ loaded.cfg.TypstCachePkgPath =
                     IF cacheEnv = "rel" THEN "/cwd/rel" ELSE cacheEnv
       ELSE loaded.err # NoErr

\* Load returned /cwd/rel for the relative directory named by the
\* environment although the settings file holds /saved
C31_Witness ==
    /\ loaded.done
    /\ loaded.err = NoErr
    /\ cacheEnv = "rel"
    /\ SavedPath(settings) = "/saved"
    /\ loaded.cfg.TypstCachePkgPath = "/cwd/rel"

\* C32: with the environment variable unset, Load after Save(cfg) returns
\* the tokens and the cache path of cfg whatever the file held before,
\* and the default cache directory when the path of cfg is empty.
C32_SaveThenLoad ==
    (cacheEnv = "" /\ saved.done /\ saved.err = NoErr /\ loaded.done
        /\ loaded.err # "open error") =>
       /\ loaded.err = NoErr
       /\ loaded.cfg.AccessToken = saved.cfg.AccessToken
       /\ loaded.cfg.RefreshToken = saved.cfg.RefreshToken
       /\ loaded.cfg.TypstCachePkgPath =
             IF saved.cfg.TypstCachePkgPath = "" THEN DefaultCacheDir
             ELSE saved.cfg.TypstCachePkgPath

\* a configuration without refresh token and path was saved and loaded
C32_Witness ==
    /\ cacheEnv = ""
    /\ saved.done
    /\ saved.err = NoErr
    /\ saved.cfg = Config("a0", "", "")
    /\ loaded.done
    /\ loaded.cfg = Config("a0", "", DefaultCacheDir)

\* the tokens that the settings file holds
Stored(file) == Decode(file).cfg

\* C33, its last part: whenever the refresh of a call fails, the settings
\* file holds no refresh token afterwards, so that a later call that
\* receives 401 loads none and makes no refresh attempt.
C33_FailedRefreshClears ==
    [][\A p \in Procs :
          req[p].refreshed = "none"
          /\ req'[p].refreshed \in {"error", "rejected"}
          => Stored(settings').RefreshToken = ""]_vars

\* C34: every response that makeRequest returns without error has a body
\* that has not been closed, also when the first response was 401 and the
\* refresh failed.
C34_ReturnedBodyOpen ==
    \A p \in Procs :
       req[p].pc = "returned" /\ req[p].res.err = NoErr
       => ~req[p].res.closed

\* C35: when two calls have both received 401 for the same stored tokens
\* and both have returned, and a refresh succeeded and none failed on
\* transport, decoding or saving, the settings file holds the access token
\* of the latest refresh, and the refresh token of the server if that is
\* still valid.
C35_FirstRefreshNotLost ==
    /\ \A p \in Procs :
          /\ req[p].pc = "returned"
          /\ req[p].status = 401
          /\ req[p].sends[1].token = "a0"
          /\ req[p].refreshed # "error"
    /\ \E p \in Procs : req[p].refreshed = "ok"
    => /\ Stored(settings).AccessToken = srv.lastAccess
       /\ srv.lastRefresh \in srv.validRefresh
          => Stored(settings).RefreshToken = srv.lastRefresh

\* C39: a login, a successful refresh and the clearing of the refresh
\* token leave the cache path of the settings file as it was: whenever no
\* Save is under way, the file holds a path that it may have started with.
C39_TokensLeavePath ==
    (\A p \in Procs : req[p].pc # "encode")
    => SavedPath(settings) \in SavedPaths

\* C36: when the extraction of a downloaded package has returned an error,
\* the directory of the package does not exist, so that isPackageCached
\* does not report the package as cached.
C36_CachedOnlyAfterExtraction ==
    pc = "off" /\ xpc = "returned" /\ xerr # NoErr => DestDir \notin fsDirs

\* C37: when the goroutine of an update has finished and the handle has no
\* error, the new binary is at the path of the running executable.
C37_NilErrMeansInstalled ==
    pc = "done" /\ ipc = "done" /\ Err = NoErr => exeFile = "new"

\* C38: an Update() that follows a Check() which returned an error returns
\* the precondition error and starts no download.
C38_UpdateAfterFailedCheck ==
    [][(lastCall.op = "Check" /\ lastCall.err # NoErr
        /\ lastCall'.op = "Update")
       => (lastCall'.err = Precondition /\ pc' = "off")]_vars

\* C40: the archive that CreatePackage writes has no entry for the output
\* archive itself, also when the output path lies in the source directory.
C40_OutputNotInArchive ==
    \A i \in 1 .. Len(bundle) :
       \A srcDir \in SrcDirs :
          bundle[i].name # Split(DefaultOutput(srcDir))

====
